---- MODULE Spec2Model ----
(***************************************************************************)
(* A model of KoPL: the typed value algebra (kopl/util.py), the indexed    *)
(* knowledge base (kopl/data.py) and the program interpreter               *)
(* (kopl/kopl.py).                                                         *)
(*                                                                         *)
(* Seven specifications share the module:                                  *)
(*   SpecComp  calls comp(a, b, op) on typed values;                       *)
(*   SpecAnc   runs KB.get_all_concepts one loop iteration at a time;      *)
(*   Spec      runs KB.__init__ phase by phase on a parsed input;          *)
(*   SpecEng   constructs a KB and calls primitives of KoPLEngine on it;   *)
(*   SpecFwd   constructs a KB and runs KoPLEngine.forward on a program;   *)
(*   SpecRep   constructs a KB and runs forward several times on it;       *)
(*   SpecConc  constructs a KB and lets two threads evaluate on it.        *)
(***************************************************************************)
EXTENDS Integers, Sequences, FiniteSets, TLC

VARIABLES
    cmpA, cmpB, cmpOp, cmpRes,          \* last call of comp and its outcome
    ancKB, ancEnt, ancQ, ancestors, ancRes, ancPc, \* one run of get_all_concepts
    kb,                                 \* the parsed input handed to KB(...)
    entities, entity_order,             \* KB.entities and its insertion order
    name_to_id, concept_to_entity,      \* KB indices
    attribute_keys, relations, key_type,
    attribute_inv_index, relation_inv_index, forward_relation_index,
    pc,                                 \* position inside KB.__init__
    calls,                              \* the calls made on the engine so far
    program, ignore_error,              \* the arguments of forward()
    dependency, branch_stack, memory,   \* the locals of forward()
    err, answer, raised, fpc,           \* outcome and position of forward()
    threads                             \* the evaluations running side by side

cmpVars == <<cmpA, cmpB, cmpOp, cmpRes>>
ancVars == <<ancKB, ancEnt, ancQ, ancestors, ancRes, ancPc>>
kbVars  == <<kb, entities, entity_order, name_to_id, concept_to_entity,
             attribute_keys, relations, key_type, attribute_inv_index,
             relation_inv_index, forward_relation_index, pc>>
engVars == <<calls>>
fwdVars == <<program, ignore_error, dependency, branch_stack, memory,
             err, answer, raised, fpc>>
conVars == <<threads>>
runVars == <<engVars, fwdVars, conVars>>
vars    == <<cmpVars, ancVars, kbVars, runVars>>

(***************************************************************************)
(* Bounds of the model.                                                    *)
(***************************************************************************)
MaxYear  == 2      \* years are 1..MaxYear
MaxMonth == 2      \* months are 1..MaxMonth
MaxDay   == 2      \* days are 1..MaxDay
MaxNum   == 2      \* quantity magnitudes are 1..MaxNum
MaxIsA   == 2      \* longest instanceOf / subclassOf list of an input
MaxRels  == 2      \* longest relation list of an input entity
MaxAttrs == 2      \* longest attribute list of an input entity

(***************************************************************************)
(* Generic helpers.                                                        *)
(***************************************************************************)
Range(s) == {s[i] : i \in 1..Len(s)}

SeqsUpTo(S, n) == UNION {[1..k -> S] : k \in 0..n}

(***************************************************************************)
(* Typed values: ValueClass(type, value, unit).                            *)
(* A date value is the triple <<y, m, d>> of datetime.date; a year value   *)
(* is an integer.  unit is "None" unless the type is quantity.             *)
(***************************************************************************)
ValueClass(type, value, unit) == [type |-> type, value |-> value, unit |-> unit]

\* the strings of the model, listed in Python's (codepoint) order
StringOrder == <<"a", "b">>
Strings == {StringOrder[i] : i \in 1..Len(StringOrder)}
Units   == {"cm", "kg"}

StringValues   == {ValueClass("string", s, "None") : s \in Strings}
QuantityValues == {ValueClass("quantity", x, u) : x \in 1..MaxNum, u \in Units}
YearValues     == {ValueClass("year", y, "None") : y \in 1..MaxYear}
DateValues     == {ValueClass("date", <<y, m, d>>, "None") :
                      y \in 1..MaxYear, m \in 1..MaxMonth, d \in 1..MaxDay}
Values         == StringValues \cup QuantityValues \cup YearValues \cup DateValues

\* datetime.date.year
DateYear(dt) == dt[1]

\* datetime.date.__lt__: calendar order
DateLt(d1, d2) ==
    \/ d1[1] < d2[1]
    \/ d1[1] = d2[1] /\ d1[2] < d2[2]
    \/ d1[1] = d2[1] /\ d1[2] = d2[2] /\ d1[3] < d2[3]

\* str.__gt__: codepoint order
StrGt(s, t) ==
    \E i, j \in 1..Len(StringOrder) :
        StringOrder[i] = s /\ StringOrder[j] = t /\ i > j

\* The outcome of a call: a returned boolean or a raised exception.
Return(b) == [exc |-> "none", val |-> b]
Raise(e)  == [exc |-> e, val |-> FALSE]

isTime(v) == v.type \in {"year", "date"}

can_compare(self, other) ==
    IF self.type = "string" THEN other.type = "string"
    ELSE IF self.type = "quantity"
         THEN other.type = "quantity" /\ other.unit = self.unit
         ELSE other.type = "year" \/ other.type = "date"

\* contains with the year-contains-date branch lost
containsDateOnly(self, other) ==
    IF self.type = "date" /\ other.type = "year"
    THEN DateYear(self.value) = other.value
    ELSE FALSE

contains(self, other) ==
    IF self.type = "date" /\ other.type = "year"
    THEN DateYear(self.value) = other.value
    ELSE IF other.type = "date" /\ self.type = "year"
         THEN DateYear(other.value) = self.value
         ELSE FALSE

\* ValueClass.__eq__
ValueEq(self, other) ==
    IF ~can_compare(self, other) THEN FALSE
    ELSE self.type = other.type /\ self.value = other.value

\* a __ne__ that, like __eq__, answers False on incomparable values
ValueNeComparable(self, other) ==
    can_compare(self, other) /\ ~ValueEq(self, other)

\* a != b: ValueClass defines no __ne__, so Python inverts __eq__
ValueNe(self, other) == ~ValueEq(self, other)

\* ValueClass.__lt__
ValueLt(self, other) ==
    IF ~can_compare(self, other) THEN Raise("AssertionError")
    ELSE IF self.type = "string" THEN Raise("Exception")
    ELSE IF self.type = "quantity" THEN Return(self.value < other.value)
    ELSE IF self.type = "year"
         THEN IF other.type = "year" THEN Return(self.value < other.value)
              ELSE IF other.type = "date"
                   THEN Return(self.value < DateYear(other.value))
                   ELSE Return(FALSE)
    ELSE IF self.type = "date"
         THEN IF other.type = "year"
              THEN Return(DateYear(self.value) < other.value)
              ELSE IF other.type = "date"
                   THEN Return(DateLt(self.value, other.value))
                   ELSE Return(FALSE)
    ELSE Return(FALSE)

\* __gt__ without its two cross-tag branches
ValueGtSameTag(self, other) ==
    IF self.type = "string" /\ other.type = "string"
    THEN Return(StrGt(self.value, other.value))
    ELSE IF self.type = "quantity" /\ other.type = "quantity"
            /\ self.unit = other.unit
         THEN Return(self.value > other.value)
    ELSE IF self.type = "year" /\ other.type = "year"
         THEN Return(self.value > other.value)
    ELSE IF self.type = "date" /\ other.type = "date"
         THEN Return(DateLt(other.value, self.value))
    ELSE Return(FALSE)

\* ValueClass.__gt__
ValueGt(self, other) ==
    IF self.type = "string" /\ other.type = "string"
    THEN Return(StrGt(self.value, other.value))
    ELSE IF self.type = "quantity" /\ other.type = "quantity"
            /\ self.unit = other.unit
         THEN Return(self.value > other.value)
    ELSE IF self.type = "year" /\ other.type = "year"
         THEN Return(self.value > other.value)
    ELSE IF self.type = "date" /\ other.type = "date"
         THEN Return(DateLt(other.value, self.value))
    ELSE IF self.type = "date" /\ other.type = "year"
         THEN Return(DateYear(self.value) > other.value)
    ELSE IF self.type = "year" /\ other.type = "date"
         THEN Return(self.value > DateYear(other.value))
    ELSE Return(FALSE)

\* the operators a caller may pass; "~" stands for any unsupported one
Ops == {"=", "!=", "<", ">", "~"}

comp(a, b, op) ==
    IF isTime(b) /\ op = "=" THEN Return(contains(b, a))
    ELSE IF isTime(b) /\ op = "!=" THEN Return(~contains(b, a))
    ELSE IF op = "=" THEN Return(ValueEq(a, b))
    ELSE IF op = "<" THEN ValueLt(a, b)
    ELSE IF op = ">" THEN ValueGt(a, b)
    ELSE IF op = "!=" THEN Return(ValueNe(a, b))
    ELSE Raise("TypeError")

(***************************************************************************)
(* SpecComp: a caller applies comp to two typed values.                    *)
(***************************************************************************)
NoValue == ValueClass("none", 0, "None")

CompIdle ==
    /\ cmpA = NoValue
    /\ cmpB = NoValue
    /\ cmpOp = "none"
    /\ cmpRes = Return(FALSE)

\* one call per behaviour
CompCall ==
    \E a \in Values, b \in Values, op \in Ops :
        /\ cmpOp = "none"
        /\ cmpA' = a
        /\ cmpB' = b
        /\ cmpOp' = op
        /\ cmpRes' = comp(a, b, op)
        /\ UNCHANGED <<ancVars, kbVars, runVars>>

CompCalled == cmpOp # "none"

(***************************************************************************)
(* The knowledge base (kopl/data.py).                                      *)
(*                                                                         *)
(* A Python dict is a function whose DOMAIN is its key set; where the code *)
(* depends on insertion order the order is kept beside it as a sequence.   *)
(* A list is a sequence, and a position stored in an index is the Python   *)
(* (0-based) one.  A raw temporal text is the tuple of its fields: <<y>>   *)
(* for "y" and <<y, m, d>> for "y-m-d" or "y/m/d".                         *)
(***************************************************************************)
EmptyDict == <<>>

\* d[k].append(x) on a defaultdict(list)
DictAppend(d, k, x) ==
    IF k \in DOMAIN d THEN [d EXCEPT ![k] = Append(@, x)]
    ELSE (k :> <<x>>) @@ d

\* d[k1][k2].append(x) on a defaultdict(lambda_list)
lambda_list(d, k1, k2, x) ==
    LET inner == IF k1 \in DOMAIN d THEN d[k1] ELSE EmptyDict
    IN  (k1 :> DictAppend(inner, k2, x)) @@ d

\* d[k].add(x) on a defaultdict(set)
DictAdd(d, k, x) ==
    IF k \in DOMAIN d THEN [d EXCEPT ![k] = @ \cup {x}]
    ELSE (k :> {x}) @@ d

\* KB._parse_value
_parse_value(value) ==
    IF value.type = "string" THEN ValueClass("string", value.value, "None")
    ELSE IF value.type = "quantity"
         THEN ValueClass("quantity", value.value, value.unit)
    ELSE IF Len(value.value) = 3
         THEN ValueClass("date", value.value, "None")
         ELSE ValueClass("year", value.value[1], "None")

\* get_direct_concepts without the `i != ent_id` test
get_direct_conceptsWithSelf(ents, ent_id) ==
    IF ent_id \in DOMAIN ents
    THEN SelectSeq(ents[ent_id].isA, LAMBDA i : i \in DOMAIN ents)
    ELSE <<>>

\* KB.get_direct_concepts
get_direct_concepts(ents, ent_id) ==
    IF ent_id \in DOMAIN ents
    THEN SelectSeq(ents[ent_id].isA,
                   LAMBDA i : i \in DOMAIN ents /\ i # ent_id)
    ELSE <<>>

\* get_all_concepts before its loop: the queue holds the direct concepts
BfsStart(ents, ent_id) ==
    [q |-> get_direct_concepts(ents, ent_id), ancestors |-> {}]

\* the loop body without the `con_id not in ancestors` test
BfsStepNoVisited(ents, st) ==
    LET con_id == Head(st.q)
    IN  IF con_id \in DOMAIN ents
        THEN [q |-> Tail(st.q) \o ents[con_id].isA,
              ancestors |-> st.ancestors \cup {con_id}]
        ELSE [q |-> Tail(st.q), ancestors |-> st.ancestors]

\* one iteration of the while loop of get_all_concepts
BfsStep(ents, st) ==
    LET con_id == Head(st.q)
    IN  IF con_id \in DOMAIN ents /\ con_id \notin st.ancestors
        THEN [q |-> Tail(st.q) \o ents[con_id].isA,
              ancestors |-> st.ancestors \cup {con_id}]
        ELSE [q |-> Tail(st.q), ancestors |-> st.ancestors]

RECURSIVE BfsRun(_, _)
BfsRun(ents, st) ==
    IF st.q = <<>> THEN st.ancestors ELSE BfsRun(ents, BfsStep(ents, st))

\* KB.get_all_concepts, as the set its returned list holds
get_all_concepts(ents, ent_id) == BfsRun(ents, BfsStart(ents, ent_id))

(***************************************************************************)
(* SpecAnc: one call of get_all_concepts(ent_id) on a store whose isA      *)
(* lists are arbitrary (cycles, self-loops, duplicates, dangling ids),     *)
(* one loop iteration per step.                                            *)
(***************************************************************************)
AncIds     == {"c1", "c2"}
AncTargets == AncIds \cup {"zz"}      \* "zz" is in no store

AncStores == [AncIds -> [isA : SeqsUpTo(AncTargets, MaxIsA)]]

\* No run of the loop holds more than this many queued ids: the direct
\* concepts, then one isA list per recorded ancestor.
AncQueueCap == (Cardinality(AncIds) + 1) * MaxIsA

\* the lists list(s) may return for a set s
ListsOf(s) ==
    {l \in [1..Cardinality(s) -> s] : \A i, j \in DOMAIN l : l[i] = l[j] => i = j}

AncIdle ==
    /\ ancKB = EmptyDict
    /\ ancEnt = "none"
    /\ ancQ = <<>>
    /\ ancestors = {}
    /\ ancRes = <<>>
    /\ ancPc = "idle"

AncInit ==
    /\ ancKB \in AncStores
    /\ ancEnt \in AncTargets
    /\ ancQ = <<>>
    /\ ancestors = {}
    /\ ancRes = <<>>
    /\ ancPc = "call"

\* lines 328-331: the queue is filled with the direct concepts
AncStart ==
    /\ ancPc = "call"
    /\ ancQ' = BfsStart(ancKB, ancEnt).q
    /\ ancestors' = BfsStart(ancKB, ancEnt).ancestors
    /\ ancPc' = "loop"
    /\ UNCHANGED <<ancKB, ancEnt, ancRes, cmpVars, kbVars, runVars>>

\* lines 332-339: one iteration of `while not q.empty()`
AncLoop ==
    /\ ancPc = "loop"
    /\ ancQ # <<>>
    /\ LET st == BfsStep(ancKB, [q |-> ancQ, ancestors |-> ancestors])
       IN  /\ Len(st.q) <= AncQueueCap
           /\ ancQ' = st.q
           /\ ancestors' = st.ancestors
    /\ UNCHANGED <<ancKB, ancEnt, ancRes, ancPc, cmpVars, kbVars, runVars>>

\* line 340: return list(ancestors)
AncReturn ==
    /\ ancPc = "loop"
    /\ ancQ = <<>>
    /\ ancRes' \in ListsOf(ancestors)
    /\ ancPc' = "done"
    /\ UNCHANGED <<ancKB, ancEnt, ancQ, ancestors, cmpVars, kbVars, runVars>>

(***************************************************************************)
(* KB.__init__, phase by phase.                                            *)
(***************************************************************************)
flip(direction) == IF direction = "backward" THEN "forward" ELSE "backward"

\* lines 84-92: concepts, then entities, are merged into one store
MergeStore(k) ==
    [id \in Range(k.concept_ids) \cup Range(k.entity_ids) |->
        IF id \in Range(k.entity_ids)
        THEN [name       |-> k.entities[id].name,
              isA        |-> k.entities[id].instanceOf,
              attributes |-> k.entities[id].attributes,
              relations  |-> k.entities[id].relations]
        ELSE [name       |-> k.concepts[id].name,
              isA        |-> k.concepts[id].subclassOf,
              attributes |-> <<>>,
              relations  |-> <<>>]]

MergeOrder(k) ==
    k.concept_ids \o SelectSeq(k.entity_ids, LAMBDA e : e \notin Range(k.concept_ids))

\* the mirror with the direction copied instead of flipped
rel_info_for_conSameDirection(eid, rel_info) ==
    [relation   |-> rel_info.relation,
     direction  |-> rel_info.direction,
     object     |-> eid,
     qualifiers |-> rel_info.qualifiers]

\* lines 98-105: the relation put on the concept
rel_info_for_con(eid, rel_info) ==
    [relation   |-> rel_info.relation,
     direction  |-> flip(rel_info.direction),
     object     |-> eid,
     qualifiers |-> rel_info.qualifiers]

\* the insertion without the `not in` test
MirrorOneNoDedup(ents, k, eid, rel_info) ==
    LET obj_id == rel_info.object
        m      == rel_info_for_con(eid, rel_info)
    IN  IF obj_id \in Range(k.concept_ids)
        THEN [ents EXCEPT ![obj_id].relations = Append(@, m)]
        ELSE ents

\* lines 96-107: one relation of one entity
MirrorOne(ents, k, eid, rel_info) ==
    LET obj_id == rel_info.object
        m      == rel_info_for_con(eid, rel_info)
    IN  IF obj_id \in Range(k.concept_ids)
           /\ m \notin Range(ents[obj_id].relations)
        THEN [ents EXCEPT ![obj_id].relations = Append(@, m)]
        ELSE ents

\* line 95: for rel_info in kb["entities"][eid]["relations"]
RECURSIVE MirrorRelations(_, _, _, _)
MirrorRelations(ents, k, eid, i) ==
    IF i > Len(k.entities[eid].relations) THEN ents
    ELSE MirrorRelations(MirrorOne(ents, k, eid, k.entities[eid].relations[i]),
                         k, eid, i + 1)

\* line 94: for eid in kb["entities"]
RECURSIVE MirrorEntities(_, _, _)
MirrorEntities(ents, k, j) ==
    IF j > Len(k.entity_ids) THEN ents
    ELSE MirrorEntities(MirrorRelations(ents, k, k.entity_ids[j], 1), k, j + 1)

\* lines 150-153: concept_to_entity[c].add(ent_id) for every ancestor c
MergeIntoAncestors(c2e, cs, ent_id) ==
    [c \in DOMAIN c2e \cup cs |->
        (IF c \in DOMAIN c2e THEN c2e[c] ELSE {})
        \cup (IF c \in cs THEN {ent_id} ELSE {})]

\* lines 148-153: the loop over the store, in insertion order
RECURSIVE ProcessConcept(_, _, _, _)
ProcessConcept(acc, ents, order, j) ==
    IF j > Len(order) THEN acc
    ELSE LET ent_id == order[j]
         IN  ProcessConcept(
                 [name_to_id |-> DictAppend(acc.name_to_id, ents[ent_id].name, ent_id),
                  concept_to_entity |->
                      MergeIntoAncestors(acc.concept_to_entity,
                                         get_all_concepts(ents, ent_id), ent_id)],
                 ents, order, j + 1)

\* d[k] = v on a dict
DictSet(d, k, v) == (k :> v) @@ d

\* the qualifier writes with a key keeping the first type written for it
KeyTypeQualifiersFirst(kt, quals) ==
    [k \in DOMAIN kt \cup {qk \in DOMAIN quals : quals[qk] # <<>>} |->
        IF k \in DOMAIN kt THEN kt[k] ELSE quals[k][1].type]

\* lines 203-204 and 219-220: for qk in qualifiers: for qv in qualifiers[qk]:
\* key_type[qk] = qv["type"].  The writes of one qualifier key are the types
\* of its list in order, so the last element of the list stays; writes of
\* different keys do not interact.
KeyTypeQualifiers(kt, quals) ==
    [k \in DOMAIN kt \cup {qk \in DOMAIN quals : quals[qk] # <<>>} |->
        IF k \in DOMAIN quals /\ quals[k] # <<>>
        THEN quals[k][Len(quals[k])].type
        ELSE kt[k]]

\* the attribute indexed by its position counted from one
IndexAttributeFromOne(ix, ent_id, idx, attr_info) ==
    [ix EXCEPT
        !.attribute_keys = @ \cup {attr_info.key} \cup DOMAIN attr_info.qualifiers,
        !.key_type = KeyTypeQualifiers(DictSet(@, attr_info.key, attr_info.value.type),
                                       attr_info.qualifiers),
        !.attribute_inv_index = lambda_list(@, attr_info.key, ent_id, idx + 1)]

\* lines 193-204: one attribute, at Python position idx
IndexAttribute(ix, ent_id, idx, attr_info) ==
    [ix EXCEPT
        !.attribute_keys = @ \cup {attr_info.key} \cup DOMAIN attr_info.qualifiers,
        !.key_type = KeyTypeQualifiers(DictSet(@, attr_info.key, attr_info.value.type),
                                       attr_info.qualifiers),
        !.attribute_inv_index = lambda_list(@, attr_info.key, ent_id, idx)]

\* the relation indexed under its label and direction only
IndexRelationNoPairs(ix, ent_id, idx, rel_info) ==
    [ix EXCEPT
        !.relations = @ \cup {rel_info.relation},
        !.relation_inv_index =
            lambda_list(@, <<rel_info.relation, rel_info.direction>>, ent_id, idx),
        !.attribute_keys = @ \cup DOMAIN rel_info.qualifiers,
        !.key_type = KeyTypeQualifiers(@, rel_info.qualifiers)]

\* lines 206-220: one relation, at Python position idx
IndexRelation(ix, ent_id, idx, rel_info) ==
    [ix EXCEPT
        !.relations = @ \cup {rel_info.relation},
        !.relation_inv_index =
            lambda_list(@, <<rel_info.relation, rel_info.direction>>, ent_id, idx),
        !.forward_relation_index =
            IF rel_info.direction = "forward"
            THEN DictAppend(@, <<ent_id, rel_info.object>>, idx)
            ELSE @,
        !.attribute_keys = @ \cup DOMAIN rel_info.qualifiers,
        !.key_type = KeyTypeQualifiers(@, rel_info.qualifiers)]

RECURSIVE IndexAttributes(_, _, _, _)
IndexAttributes(ix, ent_id, attrs, i) ==
    IF i > Len(attrs) THEN ix
    ELSE IndexAttributes(IndexAttribute(ix, ent_id, i - 1, attrs[i]),
                         ent_id, attrs, i + 1)

RECURSIVE IndexRelations(_, _, _, _)
IndexRelations(ix, ent_id, rels, i) ==
    IF i > Len(rels) THEN ix
    ELSE IndexRelations(IndexRelation(ix, ent_id, i - 1, rels[i]),
                        ent_id, rels, i + 1)

\* lines 225-226, 228-229: every qualifier value becomes a ValueClass
ParseQualifiers(quals) ==
    [qk \in DOMAIN quals |->
        [n \in 1..Len(quals[qk]) |-> _parse_value(quals[qk][n])]]

\* lines 222-229: the values of one entity are parsed in place
ParseEntity(ent_info) ==
    [ent_info EXCEPT
        !.attributes =
            [n \in 1..Len(@) |->
                [@[n] EXCEPT !.value = _parse_value(@),
                             !.qualifiers = ParseQualifiers(@)]],
        !.relations =
            [n \in 1..Len(@) |->
                [@[n] EXCEPT !.qualifiers = ParseQualifiers(@)]]]

EmptyIndex ==
    [attribute_keys |-> {}, relations |-> {}, key_type |-> EmptyDict,
     attribute_inv_index |-> EmptyDict, relation_inv_index |-> EmptyDict,
     forward_relation_index |-> EmptyDict]

\* lines 192-229: the loop over the store, in insertion order
RECURSIVE ProcessAttributeRelation(_, _, _, _)
ProcessAttributeRelation(ix, ents, order, j) ==
    IF j > Len(order) THEN [ix |-> ix, ents |-> ents]
    ELSE LET ent_id == order[j]
             ix1 == IndexAttributes(ix, ent_id, ents[ent_id].attributes, 1)
             ix2 == IndexRelations(ix1, ent_id, ents[ent_id].relations, 1)
         IN  ProcessAttributeRelation(
                 ix2, [ents EXCEPT ![ent_id] = ParseEntity(@)], order, j + 1)

\* the index left as scanned
NormaliseKeyTypeNone(kt) == kt

\* lines 234-236
NormaliseKeyType(kt) ==
    [k \in DOMAIN kt |-> IF kt[k] # "year" THEN kt[k] ELSE "date"]

(***************************************************************************)
(* The parsed inputs KB(...) is built from.  Two concepts and two          *)
(* entities; an input varies the subclassOf lists, or the instanceOf list  *)
(* of e1, or the relations of e1, or the attributes of e1, the rest being  *)
(* the default below.                                                      *)
(***************************************************************************)
RawString   == [type |-> "string",   value |-> "a",         unit |-> "None"]
RawQuantity == [type |-> "quantity", value |-> 1,           unit |-> "cm"]
RawDate     == [type |-> "date",     value |-> <<1, 1, 1>>, unit |-> "None"]
RawYear     == [type |-> "year",     value |-> <<1>>,       unit |-> "None"]
RawValues   == {RawString, RawQuantity, RawDate, RawYear}

QualifierChoices ==
    {EmptyDict, "k1" :> <<RawYear>>, "k1" :> <<RawString>>,
     "k2" :> <<RawDate, RawQuantity>>}

IsATargets == {"c1", "c2", "zz"}      \* "zz" is in no input
IsALists   == SeqsUpTo(IsATargets, MaxIsA)

RelationRecords ==
    [relation : {"r1"}, direction : {"forward", "backward"},
     object : {"c1", "e2"}, qualifiers : QualifierChoices]

AttributeRecords ==
    [key : {"k1", "k2"}, value : RawValues,
     qualifiers : {EmptyDict, "k1" :> <<RawYear, RawString>>,
                   "k1" :> <<RawString, RawYear>>}]

DefaultAttributes ==
    <<[key |-> "k1", value |-> RawQuantity, qualifiers |-> EmptyDict]>>

DefaultRelations ==
    <<[relation |-> "r1", direction |-> "forward", object |-> "e2",
       qualifiers |-> EmptyDict]>>

\* e2 is the same in every input
Entity2 ==
    [name |-> "Bob", instanceOf |-> <<"c1">>,
     attributes |-> <<[key |-> "k2", value |-> RawQuantity,
                       qualifiers |-> EmptyDict]>>,
     relations  |-> <<[relation |-> "r2", direction |-> "forward",
                       object |-> "c2", qualifiers |-> "k3" :> <<RawYear>>],
                      [relation |-> "r1", direction |-> "backward",
                       object |-> "e1", qualifiers |-> EmptyDict]>>]

KBInput(sub1, sub2, inst1, attrs1, rels1) ==
    [concept_ids |-> <<"c1", "c2">>,
     entity_ids  |-> <<"e1", "e2">>,
     concepts |-> ("c1" :> [name |-> "person", subclassOf |-> sub1])
               @@ ("c2" :> [name |-> "agent", subclassOf |-> sub2]),
     entities |-> ("e1" :> [name |-> "Alice", instanceOf |-> inst1,
                            attributes |-> attrs1, relations |-> rels1])
               @@ ("e2" :> Entity2)]

\* the inputs that vary the subclassOf lists of the two concepts
SubclassInput ==
    \E s1 \in IsALists, s2 \in IsALists :
        kb = KBInput(s1, s2, <<"c1">>, DefaultAttributes, DefaultRelations)

\* the inputs that vary the instanceOf list of e1, under concepts that
\* form a cycle with a self-loop
InstanceInput ==
    \E i1 \in IsALists :
        kb = KBInput(<<"c2", "c1">>, <<"c1">>, i1,
                     DefaultAttributes, DefaultRelations)

\* the inputs that vary the relations of e1
RelationInput ==
    \E n \in 0..MaxRels : \E rels \in [1..n -> RelationRecords] :
        kb = KBInput(<<"c2">>, <<>>, <<"c1">>, DefaultAttributes, rels)

\* the inputs that vary the attributes of e1
AttributeInput ==
    \E n \in 0..MaxAttrs : \E attrs \in [1..n -> AttributeRecords] :
        kb = KBInput(<<"c2">>, <<>>, <<"c1">>, attrs, DefaultRelations)

\* a value declared a date whose text is a year: {"type": "date", "value": "1"}
RawDateOfYear == [type |-> "date", value |-> <<1>>, unit |-> "None"]

MirrorRecords ==
    [relation : {"r1"}, direction : {"forward"}, object : {"c1"},
     qualifiers : {EmptyDict, "k1" :> <<RawYear>>, "k1" :> <<RawDateOfYear>>}]

\* the inputs where e1 carries relations to the concept c1, possibly the
\* same one several times
MirrorInput ==
    \E n \in 0..MaxRels : \E rels \in [1..n -> MirrorRecords] :
        kb = KBInput(<<"c2">>, <<>>, <<"c1">>, DefaultAttributes, rels)

(***************************************************************************)
(* Spec: KB(kb) is constructed.                                            *)
(***************************************************************************)
KBIdle ==
    /\ kb = EmptyDict
    /\ entities = EmptyDict
    /\ entity_order = <<>>
    /\ name_to_id = EmptyDict
    /\ concept_to_entity = EmptyDict
    /\ attribute_keys = {}
    /\ relations = {}
    /\ key_type = EmptyDict
    /\ attribute_inv_index = EmptyDict
    /\ relation_inv_index = EmptyDict
    /\ forward_relation_index = EmptyDict
    /\ pc = "idle"

KBInit ==
    /\ (SubclassInput \/ InstanceInput \/ RelationInput \/ AttributeInput
        \/ MirrorInput)
    /\ entities = EmptyDict
    /\ entity_order = <<>>
    /\ name_to_id = EmptyDict
    /\ concept_to_entity = EmptyDict
    /\ attribute_keys = {}
    /\ relations = {}
    /\ key_type = EmptyDict
    /\ attribute_inv_index = EmptyDict
    /\ relation_inv_index = EmptyDict
    /\ forward_relation_index = EmptyDict
    /\ pc = "start"

indexVars == <<attribute_keys, relations, key_type, attribute_inv_index,
               relation_inv_index, forward_relation_index>>

\* lines 84-92
Merge ==
    /\ pc = "start"
    /\ entities' = MergeStore(kb)
    /\ entity_order' = MergeOrder(kb)
    /\ pc' = "merged"
    /\ UNCHANGED <<kb, name_to_id, concept_to_entity, indexVars, cmpVars, ancVars, runVars>>

\* lines 94-107
Mirror ==
    /\ pc = "merged"
    /\ entities' = MirrorEntities(entities, kb, 1)
    /\ pc' = "mirrored"
    /\ UNCHANGED <<kb, entity_order, name_to_id, concept_to_entity, indexVars,
                   cmpVars, ancVars, runVars>>

\* lines 143-157
Concepts ==
    /\ pc = "mirrored"
    /\ LET acc == ProcessConcept([name_to_id |-> EmptyDict,
                                  concept_to_entity |-> EmptyDict],
                                 entities, entity_order, 1)
       IN  /\ name_to_id' = acc.name_to_id
           /\ concept_to_entity' = acc.concept_to_entity
    /\ pc' = "concepts"
    /\ UNCHANGED <<kb, entities, entity_order, indexVars, cmpVars, ancVars, runVars>>

\* lines 161-236
Index ==
    /\ pc = "concepts"
    /\ LET r == ProcessAttributeRelation(EmptyIndex, entities, entity_order, 1)
       IN  /\ entities' = r.ents
           /\ attribute_keys' = r.ix.attribute_keys
           /\ relations' = r.ix.relations
           /\ key_type' = NormaliseKeyType(r.ix.key_type)
           /\ attribute_inv_index' = r.ix.attribute_inv_index
           /\ relation_inv_index' = r.ix.relation_inv_index
           /\ forward_relation_index' = r.ix.forward_relation_index
    /\ pc' = "built"
    /\ UNCHANGED <<kb, entity_order, name_to_id, concept_to_entity,
                   cmpVars, ancVars, runVars>>

Built == pc = "built"

(***************************************************************************)
(* The engine is idle until a KB has been constructed.                     *)
(***************************************************************************)
None == [kind |-> "None"]             \* Python's None as a result

EngIdle == calls = <<>>

FwdIdle ==
    /\ program = <<>>
    /\ ignore_error = FALSE
    /\ dependency = <<>>
    /\ branch_stack = <<>>
    /\ memory = <<>>
    /\ err = "none"
    /\ answer = None
    /\ raised = "none"
    /\ fpc = "idle"

ConIdle == threads = <<>>

RunIdle == EngIdle /\ FwdIdle /\ ConIdle

(***************************************************************************)
(* The specifications.                                                     *)
(***************************************************************************)
InitComp == CompIdle /\ AncIdle /\ KBIdle /\ RunIdle

NextComp == CompCall

SpecComp == InitComp /\ [][NextComp]_vars

InitAnc == CompIdle /\ AncInit /\ KBIdle /\ RunIdle

NextAnc == AncStart \/ AncLoop \/ AncReturn

\* once called, get_all_concepts runs on: nothing else is scheduled
SpecAnc == InitAnc /\ [][NextAnc]_vars /\ WF_vars(NextAnc)

Init == CompIdle /\ AncIdle /\ KBInit /\ RunIdle

Next == Merge \/ Mirror \/ Concepts \/ Index

Spec == Init /\ [][Next]_vars

(***************************************************************************)
(* Properties of the typed value algebra, under SpecComp.                  *)
(***************************************************************************)
Temporal(v) == v.type \in {"year", "date"}

\* the year a temporal value lies in
YearOf(v) == IF v.type = "year" THEN v.value ELSE v.value[1]

\* a date as one number, so that calendar order is integer order
DayNumber(dt) == (dt[1] * (MaxMonth + 1) + dt[2]) * (MaxDay + 1) + dt[3]

\* C1: under "=", two temporal values of the same tag compare by field:
\* Year(y) = Year(y') iff y = y', Date(y,m,d) = Date(y',m',d') iff all three
\* fields agree (so a filter with op "=" accepts a stored value equal to its
\* target).
C1_SameTagEqualityByField ==
    (CompCalled /\ cmpOp = "=" /\ Temporal(cmpA) /\ cmpA.type = cmpB.type)
        => cmpRes = Return(cmpA.value = cmpB.value)

\* C2: cross-tag temporal equality is year containment, in both argument
\* orders: a Date and a Year are "=" iff the date lies in the year, and "!="
\* iff it does not.
C2_CrossTagContainment ==
    (CompCalled /\ Temporal(cmpA) /\ Temporal(cmpB) /\ cmpA.type # cmpB.type)
        => /\ cmpOp = "="  => cmpRes = Return(YearOf(cmpA) = YearOf(cmpB))
           /\ cmpOp = "!=" => cmpRes = Return(YearOf(cmpA) # YearOf(cmpB))

C2_Witness ==
    /\ CompCalled /\ cmpOp = "="
    /\ cmpA.type = "date" /\ cmpB.type = "year"
    /\ cmpA.value[2] > 1
    /\ cmpRes = Return(TRUE)

\* C3: for every pair of typed values, comparable or not, "!=" returns the
\* negation of what "=" returns, and neither raises.
C3_NeNegatesEq ==
    (CompCalled /\ cmpOp = "!=")
        => /\ cmpRes.exc = "none"
           /\ comp(cmpA, cmpB, "=").exc = "none"
           /\ cmpRes.val = ~comp(cmpA, cmpB, "=").val

C3_Witness ==
    /\ CompCalled /\ cmpOp = "!="
    /\ cmpA.type = "string" /\ cmpB.type = "quantity"
    /\ cmpRes = Return(TRUE)

\* C4: an ordering comparison of two String values raises, for "<" and
\* for ">".
C4_StringOrderingRaises ==
    (CompCalled /\ cmpOp \in {"<", ">"}
        /\ cmpA.type = "string" /\ cmpB.type = "string")
        => cmpRes.exc # "none"

\* C5: ordering of temporal values: a Year against a Date compares the
\* years of the two sides; two Years compare as integers; two Dates compare
\* in calendar order; and a < b iff b > a.
C5_TemporalOrdering ==
    (CompCalled /\ cmpOp \in {"<", ">"} /\ Temporal(cmpA) /\ Temporal(cmpB))
        => LET less(x, y) ==
                   IF x.type = "date" /\ y.type = "date"
                   THEN DayNumber(x.value) < DayNumber(y.value)
                   ELSE YearOf(x) < YearOf(y)
           IN  /\ cmpOp = "<" => /\ cmpRes = Return(less(cmpA, cmpB))
                                 /\ cmpRes = comp(cmpB, cmpA, ">")
               /\ cmpOp = ">" => /\ cmpRes = Return(less(cmpB, cmpA))
                                 /\ cmpRes = comp(cmpB, cmpA, "<")

C5_Witness ==
    /\ CompCalled /\ cmpOp = ">"
    /\ cmpA.type = "date" /\ cmpB.type = "year"
    /\ cmpRes = Return(TRUE)

(***************************************************************************)
(* Properties of get_all_concepts, under SpecAnc.                          *)
(***************************************************************************)
\* C7: get_all_concepts terminates for every entity and every isA graph
\* (cycles, self-loops, duplicate parents, isA targets missing from the
\* store), and the list it returns holds each ancestor once.
C7_AncestryTerminates ==
    /\ <>(ancPc = "done")
    /\ [](ancPc = "done" =>
            /\ Range(ancRes) = ancestors
            /\ \A i, j \in 1..Len(ancRes) : ancRes[i] = ancRes[j] => i = j)

\* a run on a graph with a cycle, a duplicate parent and a dangling target
C7_Witness ==
    /\ ancPc = "done"
    /\ ancEnt = "c1"
    /\ ancKB["c1"].isA = <<"c2", "c2">>
    /\ ancKB["c2"].isA = <<"c1", "zz">>
    /\ ancestors = {"c1", "c2"}

(***************************************************************************)
(* Properties of the constructed KB, under Spec.                           *)
(***************************************************************************)
StoreIds == DOMAIN entities

\* the isA edges between records of the store
IsAEdges == {<<x, y>> \in StoreIds \X StoreIds : y \in Range(entities[x].isA)}

\* the transitive closure of a relation on the store
RECURSIVE PathsUpTo(_, _)
PathsUpTo(R, n) ==
    IF n <= 1 THEN R
    ELSE LET P == PathsUpTo(R, n - 1)
         IN  P \cup {<<x, z>> \in StoreIds \X StoreIds :
                        \E y \in StoreIds : <<x, y>> \in P /\ <<y, z>> \in R}

TransitiveClosure(R) == PathsUpTo(R, Cardinality(StoreIds))

\* concept_to_entity.get(c, [])
EntitiesOf(c) ==
    IF c \in DOMAIN concept_to_entity THEN concept_to_entity[c] ELSE {}

\* C6 as stated: e is in concept_to_entity[c] iff c is in the transitive
\* closure of e's isA edges, self-loops included.
C6_ClosureWithSelfLoops ==
    Built =>
        \A e \in StoreIds, c \in Range(kb.concept_ids) :
            e \in EntitiesOf(c) <=> <<e, c>> \in TransitiveClosure(IsAEdges)

\* C6, amended: e is in concept_to_entity[c] iff c is reachable from e over
\* the isA edges other than the self-loops x isA x; no other key exists.
C6_ClosureIgnoringSelfLoops ==
    Built =>
        /\ DOMAIN concept_to_entity \subseteq StoreIds
        /\ \A e \in StoreIds, c \in StoreIds :
              e \in EntitiesOf(c) <=>
                  <<e, c>> \in TransitiveClosure({p \in IsAEdges : p[1] # p[2]})

\* a concept with a self-loop, and an entity under a concept two edges away
C6_Witness ==
    /\ Built
    /\ "c1" \in Range(entities["c1"].isA)
    /\ "c1" \notin EntitiesOf("c1")
    /\ "c2" \notin Range(entities["e1"].isA)
    /\ "e1" \in EntitiesOf("c2")

\* C8: every relation (r, dir, o, q) of a non-concept entity e whose object
\* o is a concept has a mirror on o: label r, the opposite direction,
\* object e, qualifiers equal to q.
C8_MirrorExists ==
    Built =>
        \A e \in Range(kb.entity_ids) :
            \A i \in 1..Len(entities[e].relations) :
                LET rel == entities[e].relations[i]
                IN  rel.object \in Range(kb.concept_ids) =>
                        \E j \in 1..Len(entities[rel.object].relations) :
                            LET m == entities[rel.object].relations[j]
                            IN  /\ m.relation = rel.relation
                                /\ m.direction # rel.direction
                                /\ m.direction \in {"forward", "backward"}
                                /\ m.object = e
                                /\ m.qualifiers = rel.qualifiers

\* e1 holds a forward and a backward relation to c1, one with qualifiers
C8_Witness ==
    /\ Built
    /\ Len(entities["e1"].relations) = 2
    /\ entities["e1"].relations[1].object = "c1"
    /\ entities["e1"].relations[1].direction = "forward"
    /\ entities["e1"].relations[1].qualifiers # EmptyDict
    /\ entities["e1"].relations[2].object = "c1"
    /\ entities["e1"].relations[2].direction = "backward"

\* the declared types of the values the input holds for key k: attribute
\* values, attribute qualifier values and relation qualifier values
QualifierTypes(quals, k) ==
    IF k \in DOMAIN quals THEN {quals[k][n].type : n \in 1..Len(quals[k])} ELSE {}

ObservedTypes(k) ==
    UNION {
        UNION {(IF a.key = k THEN {a.value.type} ELSE {})
                   \cup QualifierTypes(a.qualifiers, k) :
               a \in Range(kb.entities[e].attributes)}
        \cup UNION {QualifierTypes(r.qualifiers, k) :
                    r \in Range(kb.entities[e].relations)} :
        e \in Range(kb.entity_ids)}

ModelKeys == {"k1", "k2", "k3"}

\* the types written for key k by the scan of lines 192-220, in the order
\* of the writes; at this point the store holds the parsed values, whose
\* tag is temporal exactly when the declared type was
RECURSIVE Flatten(_)
Flatten(ss) == IF ss = <<>> THEN <<>> ELSE Head(ss) \o Flatten(Tail(ss))

QualifierWrites(quals, k) ==
    IF k \in DOMAIN quals
    THEN [n \in 1..Len(quals[k]) |-> quals[k][n].type]
    ELSE <<>>

EntityWrites(info, k) ==
    Flatten([n \in 1..Len(info.attributes) |->
                (IF info.attributes[n].key = k
                 THEN <<info.attributes[n].value.type>> ELSE <<>>)
                \o QualifierWrites(info.attributes[n].qualifiers, k)])
    \o Flatten([n \in 1..Len(info.relations) |->
                QualifierWrites(info.relations[n].qualifiers, k)])

WritesOf(k) ==
    Flatten([n \in 1..Len(entity_order) |->
                EntityWrites(entities[entity_order[n]], k)])

Unified(t) == IF t \in {"year", "date"} THEN "date" ELSE t

\* C9 as stated: if any value observed for k had declared type date or
\* year, then key_type[k] = "date".
C9_AnyTemporalGivesDate ==
    Built =>
        \A k \in ModelKeys :
            ObservedTypes(k) \cap {"date", "year"} # {} =>
                k \in DOMAIN key_type /\ key_type[k] = "date"

\* C9, amended: key_type has the keys for which a value was observed, and
\* key_type[k] is the declared type of the value observed last for k in the
\* scan, with year read as date; so key_type[k] = "date" iff that last value
\* was a date or a year.
C9_LastObservedGivesType ==
    Built =>
        \A k \in ModelKeys :
            IF WritesOf(k) = <<>> THEN k \notin DOMAIN key_type
            ELSE /\ k \in DOMAIN key_type
                 /\ key_type[k] = Unified(WritesOf(k)[Len(WritesOf(k))])

\* k1 is observed as a year and then, last, as a string
C9_Witness ==
    /\ Built
    /\ Len(kb.entities["e1"].attributes) = 2
    /\ kb.entities["e1"].attributes[1].key = "k1"
    /\ kb.entities["e1"].attributes[1].value.type = "year"
    /\ kb.entities["e1"].attributes[2].key = "k1"
    /\ kb.entities["e1"].attributes[2].value.type = "string"
    /\ kb.entities["e1"].attributes[2].qualifiers = EmptyDict
    /\ key_type["k1"] = "string"

\* C10: built from values of the types string, quantity, date and year,
\* key_type holds only "string", "quantity" and "date", never "year".
C10_KeyTypeRange ==
    Built => \A k \in DOMAIN key_type : key_type[k] \in {"string", "quantity", "date"}

\* the value observed last for k1 is declared a year
C10_Witness ==
    /\ Built
    /\ Len(kb.entities["e1"].attributes) = 1
    /\ kb.entities["e1"].attributes[1].key = "k1"
    /\ kb.entities["e1"].attributes[1].value.type = "year"
    /\ kb.entities["e1"].attributes[1].qualifiers = EmptyDict
    /\ key_type["k1"] = "date"

(***************************************************************************)
(* The engine (kopl/kopl.py).                                              *)
(*                                                                         *)
(* A primitive is an operator from self.kb (and its arguments) to the      *)
(* outcome of the call and the KB the call leaves behind: reading an       *)
(* absent key of a defaultdict inserts the key.  An entity tuple           *)
(* (ids, facts) is a record whose `none` field says that facts is None.    *)
(* Iterating a Python set visits its elements in the order given by `ord`, *)
(* a listing of all ids.                                                   *)
(***************************************************************************)
MaxCalls   == 3    \* primitive calls made on one engine
MaxProgram == 5    \* longest program handed to forward()

\* self.kb
TheKB ==
    [entities |-> entities, entity_order |-> entity_order,
     name_to_id |-> name_to_id, concept_to_entity |-> concept_to_entity,
     key_type |-> key_type, attribute_inv_index |-> attribute_inv_index,
     relation_inv_index |-> relation_inv_index,
     forward_relation_index |-> forward_relation_index]

\* d[k] read on a defaultdict: the dict after the read
DefaultDictGet(d, k) == IF k \in DOMAIN d THEN d ELSE (k :> <<>>) @@ d

\* d[k1][k2] read, for every k2 of ids, on a defaultdict(lambda_list)
DefaultDictGetAll(d, k1, ids) ==
    IF ids = <<>> THEN d
    ELSE LET o == DefaultDictGet(d, k1)
         IN  [o EXCEPT ![k1] =
                 [e \in DOMAIN o[k1] \cup Range(ids) |->
                     IF e \in DOMAIN o[k1] THEN o[k1][e] ELSE <<>>]]

\* d[(a, b)] read, for every a of ids_1 and b of ids_2, on a defaultdict(list)
DefaultDictGetPairs(d, ids_1, ids_2) ==
    [k \in DOMAIN d \cup (Range(ids_1) \X Range(ids_2)) |->
        IF k \in DOMAIN d THEN d[k] ELSE <<>>]

\* the positions d[k1][k2] holds (none when a key is absent)
Positions(d, k1, k2) ==
    IF k1 \in DOMAIN d /\ k2 \in DOMAIN d[k1] THEN d[k1][k2] ELSE <<>>

\* list(s), or `for x in s`, of a set s
ListOfSet(s, ord) == SelectSeq(ord, LAMBDA x : x \in s)

EntityTuple(ids, facts, none) ==
    [kind |-> "entities", ids |-> ids, facts |-> facts, none |-> none]

ValueList(l)  == [kind |-> "values", list |-> l]     \* list[ValueClass]
StringList(l) == [kind |-> "strings", list |-> l]    \* list[str]
Scalar(x)     == [kind |-> "scalar", value |-> x]    \* a str or an int

Result(K, out) == [kb |-> K, out |-> out]

(***************************************************************************)
(* A literal argument is a text.  The model keeps the text and what        *)
(* float(), int() and the separator test make of it:                       *)
(*   "a"      no number, no separator;                                     *)
(*   "1"      an integer;                                                  *)
(*   "1 cm"   a number, a space and a unit;                                *)
(*   "1-1-1"  three integers around a separator.                           *)
(***************************************************************************)
LitWord     == [form |-> "word",     text |-> "a",     num |-> 0,
                unit |-> "None", ymd |-> <<>>]
LitInt      == [form |-> "int",      text |-> "1",     num |-> 1,
                unit |-> "None", ymd |-> <<>>]
LitQuantity == [form |-> "quantity", text |-> "1 cm",  num |-> 1,
                unit |-> "cm",   ymd |-> <<>>]
LitDate     == [form |-> "date",     text |-> "1-1-1", num |-> 0,
                unit |-> "None", ymd |-> <<1, 1, 1>>]

\* KoPLEngine._parse_key_value; typ = "None" stands for typ=None
_parse_key_value(K, key, value, typ) ==
    IF typ = "None" /\ key = "None" THEN Raise("ValueError")
    ELSE IF typ = "None" /\ key \notin DOMAIN K.key_type THEN Raise("KeyError")
    ELSE LET t == IF typ = "None" THEN K.key_type[key] ELSE typ
         IN  IF t = "string"
             THEN Return(ValueClass("string", value.text, "None"))
             ELSE IF t = "quantity"
             THEN IF value.form = "quantity"
                  THEN Return(ValueClass("quantity", value.num, value.unit))
                  ELSE IF value.form = "int"
                  THEN Return(ValueClass("quantity", value.num, "1"))
                  ELSE Raise("ValueError")
             ELSE IF value.form = "date"
             THEN Return(ValueClass("date", value.ymd, "None"))
             ELSE IF value.form = "int"
             THEN Return(ValueClass("year", value.num, "None"))
             ELSE Raise("ValueError")

\* comp(v, tgt, op) with no can_compare before it
MatchesUnguarded(v, tgt, op) == comp(v, tgt, op)

\* `v.can_compare(tgt) and comp(v, tgt, op)`
Matches(v, tgt, op) ==
    IF can_compare(v, tgt) THEN comp(v, tgt, op) ELSE Return(FALSE)

\* `for qv in qvs: if qv.can_compare(tgt) and comp(qv, tgt, op): ...; break`
RECURSIVE AnyMatches(_, _, _)
AnyMatches(qvs, tgt, op) ==
    IF qvs = <<>> THEN Return(FALSE)
    ELSE LET m == Matches(Head(qvs), tgt, op)
         IN  IF m.exc # "none" \/ m.val THEN m
             ELSE AnyMatches(Tail(qvs), tgt, op)

\* the scan of f["qualifiers"].items() for the key tgt_key
QualifierMatches(f, tgt_key, tgt, op) ==
    IF tgt_key \in DOMAIN f.qualifiers
    THEN AnyMatches(f.qualifiers[tgt_key], tgt, op)
    ELSE Return(FALSE)

\* the first exception among the outcomes ts, or "none"
FirstRaised(ts) ==
    LET bad == {n \in 1..Len(ts) : ts[n].exc # "none"}
    IN  IF bad = {} THEN "none"
        ELSE ts[CHOOSE n \in bad : \A m \in bad : n <= m].exc

\* the listing with the concepts left out
FindAllNonConcepts(K) ==
    Result(K, Return(EntityTuple(
        SelectSeq(K.entity_order, LAMBDA i : i \in Range(kb.entity_ids)),
        <<>>, TRUE)))

\* KoPLEngine.FindAll
FindAll(K) == Result(K, Return(EntityTuple(K.entity_order, <<>>, TRUE)))

\* KoPLEngine.Find
Find(K, name) ==
    LET n2i == DefaultDictGet(K.name_to_id, name)
    IN  Result([K EXCEPT !.name_to_id = n2i],
               Return(EntityTuple(n2i[name], <<>>, TRUE)))

\* KoPLEngine.FilterConcept
FilterConcept(K, entity_tuple, concept_name, ord) ==
    LET n2i == DefaultDictGet(K.name_to_id, concept_name)
        concept_ids  == n2i[concept_name]
        entity_ids_2 ==
            UNION {IF i \in DOMAIN K.concept_to_entity
                   THEN K.concept_to_entity[i] ELSE {} :
                   i \in Range(concept_ids)}
    IN  Result([K EXCEPT !.name_to_id = n2i],
               Return(EntityTuple(
                   ListOfSet(Range(entity_tuple.ids) \cap entity_ids_2, ord),
                   <<>>, TRUE)))

\* the visit with every pair carrying the id visited first
AttributesAtFirst(K, key, ids) ==
    Flatten([n \in 1..Len(ids) |->
        LET ps == Positions(K.attribute_inv_index, key, ids[n])
        IN  [m \in 1..Len(ps) |->
                [id |-> ids[1],
                 fact |-> K.entities[ids[n]].attributes[ps[m] + 1]]]])

\* the attributes the index lists under key for the entities ids, in the
\* order of the visit, each with the entity it is read from
AttributesAt(K, key, ids) ==
    Flatten([n \in 1..Len(ids) |->
        LET ps == Positions(K.attribute_inv_index, key, ids[n])
        IN  [m \in 1..Len(ps) |->
                [id |-> ids[n],
                 fact |-> K.entities[ids[n]].attributes[ps[m] + 1]]]])

\* the filter with the intersection of lines 233-235 left out
_filter_attributeAllIndexed(K, entity_ids, tgt_key, tgt_value, op, typ, ord) ==
    LET parsed == _parse_key_value(K, tgt_key, tgt_value, typ)
        aii    == DefaultDictGet(K.attribute_inv_index, tgt_key)
        K2     == [K EXCEPT !.attribute_inv_index = aii]
        hits   == AttributesAt(K2, tgt_key, ListOfSet(DOMAIN aii[tgt_key], ord))
        Test(h) == IF h.fact.key = tgt_key
                   THEN Matches(h.fact.value, parsed.val, op)
                   ELSE Return(FALSE)
        failed == FirstRaised([n \in 1..Len(hits) |-> Test(hits[n])])
        kept   == SelectSeq(hits, LAMBDA h : Test(h).val)
    IN  IF parsed.exc # "none" THEN Result(K, parsed)
        ELSE IF failed # "none" THEN Result(K2, Raise(failed))
        ELSE Result(K2, Return(EntityTuple(
                 [n \in 1..Len(kept) |-> kept[n].id],
                 [n \in 1..Len(kept) |-> kept[n].fact], FALSE)))

\* KoPLEngine._filter_attribute
_filter_attribute(K, entity_ids, tgt_key, tgt_value, op, typ, ord) ==
    LET parsed == _parse_key_value(K, tgt_key, tgt_value, typ)
        aii    == DefaultDictGet(K.attribute_inv_index, tgt_key)
        K2     == [K EXCEPT !.attribute_inv_index = aii]
        entity_ids_set == Range(entity_ids) \cap DOMAIN aii[tgt_key]
        hits   == AttributesAt(K2, tgt_key, ListOfSet(entity_ids_set, ord))
        Test(h) == IF h.fact.key = tgt_key
                   THEN Matches(h.fact.value, parsed.val, op)
                   ELSE Return(FALSE)
        failed == FirstRaised([n \in 1..Len(hits) |-> Test(hits[n])])
        kept   == SelectSeq(hits, LAMBDA h : Test(h).val)
    IN  IF parsed.exc # "none" THEN Result(K, parsed)
        ELSE IF failed # "none" THEN Result(K2, Raise(failed))
        ELSE Result(K2, Return(EntityTuple(
                 [n \in 1..Len(kept) |-> kept[n].id],
                 [n \in 1..Len(kept) |-> kept[n].fact], FALSE)))

\* KoPLEngine.FilterStr, FilterNum, FilterYear, FilterDate
FilterStr(K, entity_tuple, key, value, ord) ==
    _filter_attribute(K, entity_tuple.ids, key, value, "=", "string", ord)

FilterNum(K, entity_tuple, key, value, op, ord) ==
    _filter_attribute(K, entity_tuple.ids, key, value, op, "quantity", ord)

FilterYear(K, entity_tuple, key, value, op, ord) ==
    _filter_attribute(K, entity_tuple.ids, key, value, op, "year", ord)

FilterDate(K, entity_tuple, key, value, op, ord) ==
    _filter_attribute(K, entity_tuple.ids, key, value, op, "date", ord)

\* zip(entity_ids, facts)
Zip(entity_ids, facts) ==
    [n \in 1..(IF Len(entity_ids) < Len(facts) THEN Len(entity_ids)
               ELSE Len(facts)) |->
        [id |-> entity_ids[n], fact |-> facts[n]]]

\* the qualifier filter with the literal parsed before facts is tested
_filter_qualifierParseFirst(K, entity_ids, facts, none, tgt_key, tgt_value, op, typ) ==
    LET parsed == _parse_key_value(K, tgt_key, tgt_value, typ)
        pairs  == Zip(entity_ids, facts)
        Test(h) == QualifierMatches(h.fact, tgt_key, parsed.val, op)
        failed == FirstRaised([n \in 1..Len(pairs) |-> Test(pairs[n])])
        kept   == SelectSeq(pairs, LAMBDA h : Test(h).val)
    IN  IF parsed.exc # "none" THEN Result(K, parsed)
        ELSE IF none THEN Result(K, Return(EntityTuple(<<>>, <<>>, FALSE)))
        ELSE IF failed # "none" THEN Result(K, Raise(failed))
        ELSE Result(K, Return(EntityTuple(
                 [n \in 1..Len(kept) |-> kept[n].id],
                 [n \in 1..Len(kept) |-> kept[n].fact], FALSE)))

\* KoPLEngine._filter_qualifier
_filter_qualifier(K, entity_ids, facts, none, tgt_key, tgt_value, op, typ) ==
    LET parsed == _parse_key_value(K, tgt_key, tgt_value, typ)
        pairs  == Zip(entity_ids, facts)
        Test(h) == QualifierMatches(h.fact, tgt_key, parsed.val, op)
        failed == FirstRaised([n \in 1..Len(pairs) |-> Test(pairs[n])])
        kept   == SelectSeq(pairs, LAMBDA h : Test(h).val)
    IN  IF none THEN Result(K, Return(EntityTuple(<<>>, <<>>, FALSE)))
        ELSE IF parsed.exc # "none" THEN Result(K, parsed)
        ELSE IF failed # "none" THEN Result(K, Raise(failed))
        ELSE Result(K, Return(EntityTuple(
                 [n \in 1..Len(kept) |-> kept[n].id],
                 [n \in 1..Len(kept) |-> kept[n].fact], FALSE)))

\* KoPLEngine.QFilterStr, QFilterNum, QFilterYear, QFilterDate
QFilterStr(K, entity_tuple, qkey, qvalue) ==
    _filter_qualifier(K, entity_tuple.ids, entity_tuple.facts,
                      entity_tuple.none, qkey, qvalue, "=", "string")

QFilterNum(K, entity_tuple, qkey, qvalue, op) ==
    _filter_qualifier(K, entity_tuple.ids, entity_tuple.facts,
                      entity_tuple.none, qkey, qvalue, op, "quantity")

QFilterYear(K, entity_tuple, qkey, qvalue, op) ==
    _filter_qualifier(K, entity_tuple.ids, entity_tuple.facts,
                      entity_tuple.none, qkey, qvalue, op, "year")

QFilterDate(K, entity_tuple, qkey, qvalue, op) ==
    _filter_qualifier(K, entity_tuple.ids, entity_tuple.facts,
                      entity_tuple.none, qkey, qvalue, op, "date")

\* the related entities replaced by the entities the relation starts from
RelateSubjects(K, entity_tuple, relation, direction, ord) ==
    LET key == <<relation, direction>>
        rii == DefaultDictGet(K.relation_inv_index, key)
        entity_ids_set == Range(entity_tuple.ids) \cap DOMAIN rii[key]
        order == ListOfSet(entity_ids_set, ord)
        hits  == Flatten([n \in 1..Len(order) |->
                     [m \in 1..Len(rii[key][order[n]]) |->
                         [id |-> order[n],
                          fact |-> K.entities[order[n]].relations[rii[key][order[n]][m] + 1]]]])
    IN  Result([K EXCEPT !.relation_inv_index = rii],
               Return(EntityTuple([n \in 1..Len(hits) |-> hits[n].id],
                                  [n \in 1..Len(hits) |-> hits[n].fact],
                                  FALSE)))

\* KoPLEngine.Relate
Relate(K, entity_tuple, relation, direction, ord) ==
    LET key == <<relation, direction>>
        rii == DefaultDictGet(K.relation_inv_index, key)
        entity_ids_set == Range(entity_tuple.ids) \cap DOMAIN rii[key]
        order == ListOfSet(entity_ids_set, ord)
        hits  == Flatten([n \in 1..Len(order) |->
                     [m \in 1..Len(rii[key][order[n]]) |->
                         K.entities[order[n]].relations[rii[key][order[n]][m] + 1]]])
    IN  Result([K EXCEPT !.relation_inv_index = rii],
               Return(EntityTuple([n \in 1..Len(hits) |-> hits[n].object],
                                  hits, FALSE)))

\* KoPLEngine.And
And(K, l_entities, r_entities, ord) ==
    Result(K, Return(EntityTuple(
        ListOfSet(Range(l_entities.ids) \cap Range(r_entities.ids), ord),
        <<>>, TRUE)))

\* KoPLEngine.Or
Or(K, l_entities, r_entities, ord) ==
    Result(K, Return(EntityTuple(
        ListOfSet(Range(l_entities.ids) \cup Range(r_entities.ids), ord),
        <<>>, TRUE)))

\* KoPLEngine.QueryName
QueryName(K, entity_tuple) ==
    LET ids == entity_tuple.ids
    IN  IF \E n \in 1..Len(ids) : ids[n] \notin DOMAIN K.entities
        THEN Result(K, Raise("KeyError"))
        ELSE Result(K, Return(StringList(
                 [n \in 1..Len(ids) |-> K.entities[ids[n]].name])))

\* KoPLEngine.Count
Count(K, entity_tuple) == Result(K, Return(Scalar(Len(entity_tuple.ids))))

\* KoPLEngine.QueryAttr
QueryAttr(K, entity_tuple, key) ==
    LET ids   == entity_tuple.ids
        attrs == AttributesAt(K, key, ids)
    IN  Result([K EXCEPT !.attribute_inv_index = DefaultDictGetAll(@, key, ids)],
               Return(ValueList([n \in 1..Len(attrs) |-> attrs[n].fact.value])))

\* KoPLEngine.QueryAttrUnderCondition
QueryAttrUnderCondition(K, entity_tuple, key, qkey, qvalue) ==
    LET ids    == entity_tuple.ids
        parsed == _parse_key_value(K, qkey, qvalue, "None")
        attrs  == AttributesAt(K, key, ids)
        Test(h) == QualifierMatches(h.fact, qkey, parsed.val, "=")
        failed == FirstRaised([n \in 1..Len(attrs) |-> Test(attrs[n])])
        kept   == SelectSeq(attrs, LAMBDA h : Test(h).val)
        K2     == [K EXCEPT !.attribute_inv_index = DefaultDictGetAll(@, key, ids)]
    IN  IF parsed.exc # "none" THEN Result(K, parsed)
        ELSE IF failed # "none" THEN Result(K2, Raise(failed))
        ELSE Result(K2, Return(ValueList(
                 [n \in 1..Len(kept) |-> kept[n].fact.value])))

\* lines 750-755: the verdict for `matched` ones among `total` tests
Verdict(matched, total) ==
    IF matched >= 1 /\ matched = total THEN "yes"
    ELSE IF matched = 0 THEN "no"
    ELSE "not sure"

\* KoPLEngine._verify
_verify(K, s_value, t_value, op, typ) ==
    LET parsed == _parse_key_value(K, "None", t_value, typ)
        match  == [n \in 1..Len(s_value.list) |->
                      Matches(s_value.list[n], parsed.val, op)]
        failed == FirstRaised(match)
    IN  IF parsed.exc # "none" THEN Result(K, parsed)
        ELSE IF failed # "none" THEN Result(K, Raise(failed))
        ELSE Result(K, Return(Scalar(
                 Verdict(Cardinality({n \in 1..Len(match) : match[n].val}),
                         Len(match)))))

\* KoPLEngine.VerifyStr, VerifyNum, VerifyYear, VerifyDate
VerifyStr(K, s_value, t_value) == _verify(K, s_value, t_value, "=", "string")

VerifyNum(K, s_value, t_value, op) == _verify(K, s_value, t_value, op, "quantity")

VerifyYear(K, s_value, t_value, op) == _verify(K, s_value, t_value, op, "year")

VerifyDate(K, s_value, t_value, op) == _verify(K, s_value, t_value, op, "date")

\* the forward relations the index lists from an entity of ids_1 to one of
\* ids_2, in the order of the visit
RelationsBetween(K, ids_1, ids_2) ==
    Flatten([n \in 1..Len(ids_1) |->
        Flatten([m \in 1..Len(ids_2) |->
            LET k  == <<ids_1[n], ids_2[m]>>
                ps == IF k \in DOMAIN K.forward_relation_index
                      THEN K.forward_relation_index[k] ELSE <<>>
            IN  [j \in 1..Len(ps) |->
                    K.entities[ids_1[n]].relations[ps[j] + 1]]])])

\* KoPLEngine.QueryRelation
QueryRelation(K, s_entities, t_entities) ==
    LET rels == RelationsBetween(K, s_entities.ids, t_entities.ids)
    IN  Result([K EXCEPT !.forward_relation_index =
                    DefaultDictGetPairs(@, s_entities.ids, t_entities.ids)],
               Return(StringList([n \in 1..Len(rels) |-> rels[n].relation])))

\* res += qualifiers[qkey] for every record of facts
QualifiersOf(facts, qkey) ==
    Flatten([n \in 1..Len(facts) |->
        IF qkey \in DOMAIN facts[n].qualifiers
        THEN facts[n].qualifiers[qkey] ELSE <<>>])

\* KoPLEngine.QueryAttrQualifier
QueryAttrQualifier(K, entity_tuple, key, value, qkey) ==
    LET ids    == entity_tuple.ids
        parsed == _parse_key_value(K, key, value, "None")
        attrs  == AttributesAt(K, key, ids)
        Test(h) == IF h.fact.key = key
                   THEN Matches(h.fact.value, parsed.val, "=")
                   ELSE Return(FALSE)
        failed == FirstRaised([n \in 1..Len(attrs) |-> Test(attrs[n])])
        kept   == SelectSeq(attrs, LAMBDA h : Test(h).val)
        K2     == [K EXCEPT !.attribute_inv_index = DefaultDictGetAll(@, key, ids)]
    IN  IF parsed.exc # "none" THEN Result(K, parsed)
        ELSE IF failed # "none" THEN Result(K2, Raise(failed))
        ELSE Result(K2, Return(ValueList(
                 QualifiersOf([n \in 1..Len(kept) |-> kept[n].fact], qkey))))

\* KoPLEngine.QueryRelationQualifier
QueryRelationQualifier(K, s_entities, t_entities, relation, qkey) ==
    LET rels == SelectSeq(RelationsBetween(K, s_entities.ids, t_entities.ids),
                          LAMBDA r : r.relation = relation)
    IN  Result([K EXCEPT !.forward_relation_index =
                    DefaultDictGetPairs(@, s_entities.ids, t_entities.ids)],
               Return(ValueList(QualifiersOf(rels, qkey))))

\* `filter(lambda x: x[1].type == "quantity", candidates)`
Quantities(candidates) ==
    SelectSeq(candidates, LAMBDA c : c.fact.value.type = "quantity")

\* Counter(unit_cnt).most_common()[0][0]: the unit counted most often, and
\* among the units counted equally often the one counted first
common_unit(candidates) ==
    LET UnitAt(n) == candidates[n].fact.value.unit
        units     == {UnitAt(n) : n \in 1..Len(candidates)}
        Cnt(u)    == Cardinality({n \in 1..Len(candidates) : UnitAt(n) = u})
        Seen(u)   == CHOOSE n \in 1..Len(candidates) :
                         UnitAt(n) = u /\ \A m \in 1..(n - 1) : UnitAt(m) # u
    IN  CHOOSE u \in units :
            \A w \in units :
                Cnt(u) > Cnt(w) \/ (Cnt(u) = Cnt(w) /\ Seen(u) <= Seen(w))

\* x put into the sorted list s behind every element it is not less than;
\* a comparison that raises ends the sort
RECURSIVE InsertSorted(_, _)
InsertSorted(s, x) ==
    IF s = <<>> THEN Return(<<x>>)
    ELSE LET lt == ValueLt(x.fact.value, s[Len(s)].fact.value)
             r  == InsertSorted(SubSeq(s, 1, Len(s) - 1), x)
         IN  IF lt.exc # "none" THEN lt
             ELSE IF ~lt.val THEN Return(Append(s, x))
             ELSE IF r.exc # "none" THEN r
             ELSE Return(Append(r.val, s[Len(s)]))

\* sorted(candidates, key=lambda x: x[1]): stable, by ValueClass.__lt__
RECURSIVE sorted(_)
sorted(l) ==
    IF l = <<>> THEN Return(<<>>)
    ELSE LET r == sorted(SubSeq(l, 1, Len(l) - 1))
         IN  IF r.exc # "none" THEN r ELSE InsertSorted(r.val, l[Len(l)])

\* SelectBetween with the candidates of every unit sorted
SelectBetweenAnyUnit(K, l_entities, r_entities, key, op) ==
    LET ids        == l_entities.ids \o r_entities.ids
        K2         == [K EXCEPT !.attribute_inv_index =
                          DefaultDictGetAll(@, key, ids)]
        candidates == Quantities(AttributesAt(K2, key, ids))
        sort       == sorted(candidates)
        i          == IF op = "less" THEN sort.val[1].id
                      ELSE sort.val[Len(sort.val)].id
    IN  IF candidates = <<>> THEN Result(K2, Raise("IndexError"))
        ELSE IF sort.exc # "none" THEN Result(K2, sort)
        ELSE Result(K2, Return(Scalar(K2.entities[i].name)))

\* KoPLEngine.SelectBetween
SelectBetween(K, l_entities, r_entities, key, op) ==
    LET ids        == l_entities.ids \o r_entities.ids
        K2         == [K EXCEPT !.attribute_inv_index =
                          DefaultDictGetAll(@, key, ids)]
        quantities == Quantities(AttributesAt(K2, key, ids))
        candidates == SelectSeq(quantities, LAMBDA c :
                          c.fact.value.unit = common_unit(quantities))
        sort       == sorted(candidates)
        i          == IF op = "less" THEN sort.val[1].id
                      ELSE sort.val[Len(sort.val)].id
    IN  IF quantities = <<>> THEN Result(K2, Raise("IndexError"))
        ELSE IF sort.exc # "none" THEN Result(K2, sort)
        ELSE Result(K2, Return(Scalar(K2.entities[i].name)))

\* KoPLEngine.SelectAmong
SelectAmong(K, entity_tuple, key, op, ord) ==
    LET ids        == ListOfSet(Range(entity_tuple.ids), ord)
        K2         == [K EXCEPT !.attribute_inv_index =
                          DefaultDictGetAll(@, key, ids)]
        quantities == Quantities(AttributesAt(K2, key, ids))
        candidates == SelectSeq(quantities, LAMBDA c :
                          c.fact.value.unit = common_unit(quantities))
        sort       == sorted(candidates)
        value      == IF op = "smallest" THEN sort.val[1].fact.value
                      ELSE sort.val[Len(sort.val)].fact.value
        names      == {K2.entities[candidates[n].id].name :
                          n \in {m \in 1..Len(candidates) :
                                    ValueEq(candidates[m].fact.value, value)}}
    IN  IF quantities = <<>> THEN Result(K2, Raise("IndexError"))
        ELSE IF sort.exc # "none" THEN Result(K2, sort)
        ELSE Result(K2, Return(StringList(ListOfSet(names, ord))))

(***************************************************************************)
(* The inputs the engine is constructed on.  k1 is a quantity key, k2 a    *)
(* string key and k3 a temporal key; r1 is stored on both of its ends,     *)
(* r2 only on its subject unless its object is a concept.                  *)
(***************************************************************************)
RawQuantity2 == [type |-> "quantity", value |-> 2, unit |-> "cm"]
RawQuantityMetres == [type |-> "quantity", value |-> 3, unit |-> "m"]

EngineAttributes1 ==
    <<[key |-> "k1", value |-> RawQuantity, qualifiers |-> "k3" :> <<RawYear>>],
      [key |-> "k3", value |-> RawDate, qualifiers |-> "k2" :> <<RawString>>],
      [key |-> "k2", value |-> RawString, qualifiers |-> EmptyDict]>>

EngineEntity2 ==
    [name |-> "Bob", instanceOf |-> <<"c1">>,
     attributes |->
        <<[key |-> "k1", value |-> RawQuantity2, qualifiers |-> EmptyDict],
          [key |-> "k3", value |-> RawYear,
           qualifiers |-> "k1" :> <<RawQuantity>>],
          [key |-> "k1", value |-> RawQuantity2,
           qualifiers |-> "k3" :> <<RawYear>>],
          [key |-> "k1", value |-> RawQuantityMetres,
           qualifiers |-> EmptyDict]>>,
     relations  |->
        <<[relation |-> "r2", direction |-> "forward", object |-> "c2",
           qualifiers |-> "k3" :> <<RawDate>>],
          [relation |-> "r1", direction |-> "backward", object |-> "e1",
           qualifiers |-> EmptyDict]>>]

\* e1 -r1-> e2, which e2 stores too
EngineRelationsBoth == DefaultRelations

\* e1 -r2-> e2, which e2 does not store, and e1 -r1-> c1
EngineRelationsOneSided ==
    <<[relation |-> "r2", direction |-> "forward", object |-> "e2",
       qualifiers |-> "k3" :> <<RawDate>>],
      [relation |-> "r1", direction |-> "forward", object |-> "c1",
       qualifiers |-> EmptyDict]>>

EngineKB(rels1) ==
    [KBInput(<<"c2">>, <<>>, <<"c1">>, EngineAttributes1, rels1)
        EXCEPT !.entities["e2"] = EngineEntity2]

EngineInput ==
    \E rels1 \in {EngineRelationsBoth, EngineRelationsOneSided} :
        kb = EngineKB(rels1)

\* KB(kb) is about to be constructed for an engine
KBInitEng ==
    /\ EngineInput
    /\ entities = EmptyDict
    /\ entity_order = <<>>
    /\ name_to_id = EmptyDict
    /\ concept_to_entity = EmptyDict
    /\ attribute_keys = {}
    /\ relations = {}
    /\ key_type = EmptyDict
    /\ attribute_inv_index = EmptyDict
    /\ relation_inv_index = EmptyDict
    /\ forward_relation_index = EmptyDict
    /\ pc = "start"

\* the orders in which a set of ids may be visited
\* the characters of the names and relation labels of the inputs: a str
\* taken for a list of ids is visited character by character
Characters ==
    <<"A", "l", "i", "c", "e", "B", "o", "b", "p", "r", "s", "n", "a", "g",
      "t", "1", "2">>

Reverse(s) == [n \in 1..Len(s) |-> s[Len(s) + 1 - n]]

HashOrders ==
    LET ord == <<"c1", "c2", "e1", "e2", "zz", "Alice", "Bob">> \o Characters
    IN  {ord, Reverse(ord)}

(***************************************************************************)
(* SpecEng: after construction a caller applies primitives, each to the    *)
(* results of the calls before it.                                         *)
(***************************************************************************)
NameArgs     == {"Alice", "nobody"}
ConceptArgs  == {"person", "nobody"}
KeyArgs      == {"k1", "kz"}
QueryKeyArgs == {"k1", "k3", "kz"}
QKeyArgs     == {"k3", "kz"}
RelationArgs == {"r1", "r2", "rz"}
OpArgs       == {"=", ">", "<"}
SelectKeyArgs == {"k1", "k2", "kz"}

Last(s) == s[Len(s)]

\* a further call can be made
Ready ==
    /\ pc = "built"
    /\ Len(calls) < MaxCalls
    /\ IF calls = <<>> THEN TRUE ELSE Last(calls).out.exc = "none"

\* the last call returned a result of the given kind
Holds(kind) == Ready /\ calls # <<>> /\ Last(calls).out.val.kind = kind

\* the last two calls returned entity tuples
HoldsTwo ==
    /\ Holds("entities")
    /\ Len(calls) >= 2
    /\ calls[Len(calls) - 1].out.exc = "none"
    /\ calls[Len(calls) - 1].out.val.kind = "entities"

Top  == Last(calls).out.val
Left == calls[Len(calls) - 1].out.val

\* the call is recorded and self.kb is what the call left
Invoke(fn, args, ins, r) ==
    /\ calls' = Append(calls, [fn |-> fn, args |-> args, ins |-> ins,
                               out |-> r.out])
    /\ entities' = r.kb.entities
    /\ name_to_id' = r.kb.name_to_id
    /\ concept_to_entity' = r.kb.concept_to_entity
    /\ key_type' = r.kb.key_type
    /\ attribute_inv_index' = r.kb.attribute_inv_index
    /\ relation_inv_index' = r.kb.relation_inv_index
    /\ forward_relation_index' = r.kb.forward_relation_index
    /\ UNCHANGED <<kb, entity_order, attribute_keys, relations, pc,
                   cmpVars, ancVars, fwdVars, conVars>>

NoArgs == [none |-> TRUE]

CallFindAll ==
    /\ Ready
    /\ Invoke("FindAll", NoArgs, <<>>, FindAll(TheKB))

CallFind ==
    \E name \in NameArgs :
        /\ Ready
        /\ Invoke("Find", [name |-> name], <<>>, Find(TheKB, name))

CallFilterConcept ==
    \E name \in ConceptArgs, ord \in HashOrders :
        /\ Holds("entities")
        /\ Invoke("FilterConcept", [name |-> name], <<Top>>,
                  FilterConcept(TheKB, Top, name, ord))

CallFilterStr ==
    \E key \in KeyArgs \cup {"k2"}, ord \in HashOrders :
        /\ Holds("entities")
        /\ Invoke("FilterStr", [key |-> key, value |-> LitWord, op |-> "="],
                  <<Top>>, FilterStr(TheKB, Top, key, LitWord, ord))

CallFilterNum ==
    \E key \in KeyArgs \cup {"k2"}, value \in {LitQuantity, LitWord},
       op \in OpArgs, ord \in HashOrders :
        /\ Holds("entities")
        /\ value = LitWord => op = "="
        /\ key = "k2" => (op = "<" /\ value = LitQuantity)
        /\ Invoke("FilterNum", [key |-> key, value |-> value, op |-> op],
                  <<Top>>, FilterNum(TheKB, Top, key, value, op, ord))

CallFilterYear ==
    \E key \in QKeyArgs, ord \in HashOrders :
        /\ Holds("entities")
        /\ Invoke("FilterYear", [key |-> key, value |-> LitInt, op |-> "="],
                  <<Top>>, FilterYear(TheKB, Top, key, LitInt, "=", ord))

CallFilterDate ==
    \E key \in QKeyArgs, ord \in HashOrders :
        /\ Holds("entities")
        /\ Invoke("FilterDate", [key |-> key, value |-> LitDate, op |-> "="],
                  <<Top>>, FilterDate(TheKB, Top, key, LitDate, "=", ord))

CallQFilterStr ==
    \E qkey \in {"k2", "kz"} :
        /\ Holds("entities")
        /\ Invoke("QFilterStr", [key |-> qkey, value |-> LitWord, op |-> "="],
                  <<Top>>, QFilterStr(TheKB, Top, qkey, LitWord))

CallQFilterNum ==
    \E qkey \in KeyArgs, qvalue \in {LitQuantity, LitWord} :
        /\ Holds("entities")
        /\ Invoke("QFilterNum", [key |-> qkey, value |-> qvalue, op |-> "="],
                  <<Top>>, QFilterNum(TheKB, Top, qkey, qvalue, "="))

CallQFilterYear ==
    \E qkey \in QKeyArgs :
        /\ Holds("entities")
        /\ Invoke("QFilterYear", [key |-> qkey, value |-> LitInt, op |-> "="],
                  <<Top>>, QFilterYear(TheKB, Top, qkey, LitInt, "="))

CallQFilterDate ==
    \E qkey \in QKeyArgs :
        /\ Holds("entities")
        /\ Invoke("QFilterDate", [key |-> qkey, value |-> LitDate, op |-> "="],
                  <<Top>>, QFilterDate(TheKB, Top, qkey, LitDate, "="))

CallRelate ==
    \E relation \in RelationArgs, direction \in {"forward", "backward"},
       ord \in HashOrders :
        /\ Holds("entities")
        /\ Invoke("Relate", [relation |-> relation, direction |-> direction],
                  <<Top>>, Relate(TheKB, Top, relation, direction, ord))

CallAnd ==
    \E ord \in HashOrders :
        /\ HoldsTwo
        /\ Invoke("And", NoArgs, <<Left, Top>>, And(TheKB, Left, Top, ord))

CallOr ==
    \E ord \in HashOrders :
        /\ HoldsTwo
        /\ Invoke("Or", NoArgs, <<Left, Top>>, Or(TheKB, Left, Top, ord))

CallQueryName ==
    /\ Holds("entities")
    /\ Invoke("QueryName", NoArgs, <<Top>>, QueryName(TheKB, Top))

CallCount ==
    /\ Holds("entities")
    /\ Invoke("Count", NoArgs, <<Top>>, Count(TheKB, Top))

CallQueryAttr ==
    \E key \in QueryKeyArgs :
        /\ Holds("entities")
        /\ Invoke("QueryAttr", [key |-> key], <<Top>>,
                  QueryAttr(TheKB, Top, key))

CallQueryAttrUnderCondition ==
    \E key \in KeyArgs, qkey \in QKeyArgs :
        /\ Holds("entities")
        /\ Invoke("QueryAttrUnderCondition",
                  [key |-> key, qkey |-> qkey, value |-> LitDate], <<Top>>,
                  QueryAttrUnderCondition(TheKB, Top, key, qkey, LitDate))

CallQueryAttrQualifier ==
    \E key \in KeyArgs, qkey \in QKeyArgs :
        /\ Holds("entities")
        /\ Invoke("QueryAttrQualifier",
                  [key |-> key, qkey |-> qkey, value |-> LitQuantity], <<Top>>,
                  QueryAttrQualifier(TheKB, Top, key, LitQuantity, qkey))

CallQueryRelation ==
    /\ HoldsTwo
    /\ Invoke("QueryRelation", NoArgs, <<Left, Top>>,
              QueryRelation(TheKB, Left, Top))

CallQueryRelationQualifier ==
    \E relation \in {"r2", "rz"}, qkey \in QKeyArgs :
        /\ HoldsTwo
        /\ Invoke("QueryRelationQualifier",
                  [relation |-> relation, qkey |-> qkey], <<Left, Top>>,
                  QueryRelationQualifier(TheKB, Left, Top, relation, qkey))

CallSelectBetween ==
    \E key \in SelectKeyArgs, op \in {"less", "greater"} :
        /\ HoldsTwo
        /\ Invoke("SelectBetween", [key |-> key, op |-> op], <<Left, Top>>,
                  SelectBetween(TheKB, Left, Top, key, op))

CallSelectAmong ==
    \E key \in SelectKeyArgs, op \in {"smallest", "largest"},
       ord \in HashOrders :
        /\ Holds("entities")
        /\ Invoke("SelectAmong", [key |-> key, op |-> op], <<Top>>,
                  SelectAmong(TheKB, Top, key, op, ord))

CallVerifyStr ==
    /\ Holds("values")
    /\ Invoke("VerifyStr", [value |-> LitWord, op |-> "="], <<Top>>,
              VerifyStr(TheKB, Top, LitWord))

CallVerifyNum ==
    \E op \in OpArgs :
        /\ Holds("values")
        /\ Invoke("VerifyNum", [value |-> LitQuantity, op |-> op], <<Top>>,
                  VerifyNum(TheKB, Top, LitQuantity, op))

CallVerifyYear ==
    /\ Holds("values")
    /\ Invoke("VerifyYear", [value |-> LitInt, op |-> "="], <<Top>>,
              VerifyYear(TheKB, Top, LitInt, "="))

CallVerifyDate ==
    /\ Holds("values")
    /\ Invoke("VerifyDate", [value |-> LitDate, op |-> "="], <<Top>>,
              VerifyDate(TheKB, Top, LitDate, "="))

InitEng == CompIdle /\ AncIdle /\ KBInitEng /\ RunIdle

NextEng ==
    \/ Merge \/ Mirror \/ Concepts \/ Index
    \/ CallFindAll \/ CallFind \/ CallFilterConcept
    \/ CallFilterStr \/ CallFilterNum \/ CallFilterYear \/ CallFilterDate
    \/ CallQFilterStr \/ CallQFilterNum \/ CallQFilterYear \/ CallQFilterDate
    \/ CallRelate \/ CallAnd \/ CallOr \/ CallQueryName \/ CallCount
    \/ CallQueryAttr \/ CallQueryAttrUnderCondition \/ CallQueryAttrQualifier
    \/ CallQueryRelation \/ CallQueryRelationQualifier
    \/ CallVerifyStr \/ CallVerifyNum \/ CallVerifyYear \/ CallVerifyDate
    \/ CallSelectBetween \/ CallSelectAmong

SpecEng == InitEng /\ [][NextEng]_vars

(***************************************************************************)
(* Properties of the primitives, under SpecEng.                            *)
(***************************************************************************)
\* the structures of self.kb the primitives read
KBStructures ==
    <<entities, name_to_id, concept_to_entity, key_type, attribute_inv_index,
      relation_inv_index, forward_relation_index>>

\* C11: once the KB is constructed no primitive call changes it: the entity
\* store and every index, key sets included, stay as construction left
\* them, whatever names, keys, relations or pairs the calls pass.
C11_PrimitivesNeverMutate ==
    [][pc = "built" => UNCHANGED KBStructures]_vars

\* what occurs in the constructed KB
KnownNames == {entities[e].name : e \in DOMAIN entities}

AttributeFilters == {"FilterStr", "FilterNum", "FilterYear", "FilterDate"}
QualifierFilters == {"QFilterStr", "QFilterNum", "QFilterYear", "QFilterDate"}
Filters == AttributeFilters \cup QualifierFilters \cup {"FilterConcept"}

\* the type a typed primitive parses its literal under
TypeOf(fn) ==
    IF fn \in {"FilterStr", "QFilterStr", "VerifyStr"} THEN "string"
    ELSE IF fn \in {"FilterNum", "QFilterNum", "VerifyNum"} THEN "quantity"
    ELSE IF fn \in {"FilterYear", "QFilterYear", "VerifyYear"} THEN "year"
    ELSE "date"

\* the call passes a name, key, qualifier key, relation or concept that
\* does not occur in the KB
PassesAbsent(c) ==
    IF c.fn \in {"Find", "FilterConcept"} THEN c.args.name \notin KnownNames
    ELSE IF c.fn \in AttributeFilters \cup QualifierFilters \cup {"QueryAttr"}
    THEN c.args.key \notin attribute_keys
    ELSE IF c.fn = "Relate" THEN c.args.relation \notin relations
    ELSE IF c.fn \in {"QueryAttrUnderCondition", "QueryAttrQualifier"}
    THEN c.args.key \notin attribute_keys \/ c.args.qkey \notin attribute_keys
    ELSE IF c.fn = "QueryRelationQualifier"
    THEN c.args.relation \notin relations \/ c.args.qkey \notin attribute_keys
    ELSE FALSE

\* the literal of the call is a text of the type it is to be read as: the
\* type of the primitive, or the type of the key the literal belongs to
\* (any type when the key is unknown)
LiteralParseable(c) ==
    IF c.fn \in AttributeFilters \cup QualifierFilters
    THEN _parse_key_value(TheKB, "None", c.args.value, TypeOf(c.fn)).exc = "none"
    ELSE IF c.fn \in {"QueryAttrUnderCondition", "QueryAttrQualifier"}
    THEN LET k == IF c.fn = "QueryAttrQualifier" THEN c.args.key
                  ELSE c.args.qkey
         IN  \E typ \in IF k \in DOMAIN key_type THEN {key_type[k]}
                        ELSE {"string", "quantity", "date"} :
                 _parse_key_value(TheKB, "None", c.args.value, typ).exc = "none"
    ELSE TRUE

IsEmpty(res) ==
    IF res.kind = "entities" THEN res.ids = <<>> ELSE res.list = <<>>

\* C12: a call that passes an absent name, key, qualifier key, relation or
\* concept, with a parseable literal, returns an empty result and raises
\* nothing.
C12_AbsentArgumentsGiveEmpty ==
    \A n \in 1..Len(calls) :
        (PassesAbsent(calls[n]) /\ LiteralParseable(calls[n]))
            => /\ calls[n].out.exc = "none"
               /\ IsEmpty(calls[n].out.val)

\* comparability and the meaning of the operators, as section 3 and 4.1
\* of the design state them
Comparable(a, b) ==
    \/ a.type = "string" /\ b.type = "string"
    \/ a.type = "quantity" /\ b.type = "quantity" /\ a.unit = b.unit
    \/ Temporal(a) /\ Temporal(b)

Satisfies(a, b, op) ==
    LET eq == IF Temporal(a) /\ a.type # b.type THEN YearOf(a) = YearOf(b)
              ELSE a.value = b.value
        lt(x, y) == IF x.type = "quantity" THEN x.value < y.value
                    ELSE IF x.type = "date" /\ y.type = "date"
                    THEN DayNumber(x.value) < DayNumber(y.value)
                    ELSE YearOf(x) < YearOf(y)
    IN  IF op = "=" THEN eq
        ELSE IF op = "!=" THEN ~eq
        ELSE IF op = "<" THEN lt(a, b)
        ELSE lt(b, a)

Verifiers == {"VerifyStr", "VerifyNum", "VerifyYear", "VerifyDate"}

\* C15: a verifier answers "yes" iff its list is non-empty and every value
\* is comparable to the parsed target and satisfies the operator, "no" iff
\* no value is (the empty list included), and "not sure" otherwise.
C15_VerdictOfVerify ==
    \A n \in 1..Len(calls) :
        (calls[n].fn \in Verifiers /\ calls[n].out.exc = "none")
            => LET vs  == calls[n].ins[1].list
                   tgt == _parse_key_value(TheKB, "None", calls[n].args.value,
                                           TypeOf(calls[n].fn)).val
                   good == {i \in 1..Len(vs) :
                               /\ Comparable(vs[i], tgt)
                               /\ Satisfies(vs[i], tgt, calls[n].args.op)}
                   verdict == calls[n].out.val.value
               IN  /\ verdict \in {"yes", "no", "not sure"}
                   /\ verdict = "yes" <=> (vs # <<>> /\ good = 1..Len(vs))
                   /\ verdict = "no" <=> good = {}

\* C16: the ids a filter returns are ids of the bundle it was given.
C16_FiltersNarrow ==
    \A n \in 1..Len(calls) :
        (calls[n].fn \in Filters /\ calls[n].out.exc = "none")
            => Range(calls[n].out.val.ids) \subseteq Range(calls[n].ins[1].ids)

C16_Witness ==
    \E n \in 1..Len(calls) :
        /\ calls[n].fn \in Filters /\ calls[n].out.exc = "none"
        /\ calls[n].out.val.ids # <<>>
        /\ Range(calls[n].out.val.ids) # Range(calls[n].ins[1].ids)

\* the ids of X with at least one forward relation r that satisfies P(x, o)
\* for its object o
WithForward(X, r, P(_, _)) ==
    {x \in Range(X.ids) \cap DOMAIN entities :
        \E i \in 1..Len(entities[x].relations) :
            LET rel == entities[x].relations[i]
            IN  /\ rel.relation = r /\ rel.direction = "forward"
                /\ P(x, rel.object)}

\* calls n and n + 1 are Relate(X, r, forward) and Relate(., r, backward)
RoundTrip(n) ==
    /\ n + 1 <= Len(calls)
    /\ calls[n].fn = "Relate" /\ calls[n].args.direction = "forward"
    /\ calls[n + 1].fn = "Relate" /\ calls[n + 1].args.direction = "backward"
    /\ calls[n + 1].args.relation = calls[n].args.relation

\* o stores the backward relation r whose object is x
StoresReverse(r, x, o) ==
    /\ o \in DOMAIN entities
    /\ \E j \in 1..Len(entities[o].relations) :
           LET back == entities[o].relations[j]
           IN  /\ back.relation = r /\ back.direction = "backward"
               /\ back.object = x

\* C17 as stated: the round trip of X over r returns every id of X that
\* has a forward relation r.
C17_RoundTripSuperset ==
    \A n \in 1..Len(calls) :
        RoundTrip(n)
            => WithForward(calls[n].ins[1], calls[n].args.relation,
                           LAMBDA x, o : TRUE)
                   \subseteq Range(calls[n + 1].out.val.ids)

\* C17: the round trip of X over r returns every id of X that has a
\* forward relation r whose object stores the backward relation r to it,
\* which every object that is a concept of the input does.
C17_RoundTripWhereReverseStored ==
    \A n \in 1..Len(calls) :
        RoundTrip(n)
            => LET r == calls[n].args.relation
               IN  /\ WithForward(calls[n].ins[1], r,
                                  LAMBDA x, o : StoresReverse(r, x, o))
                          \subseteq Range(calls[n + 1].out.val.ids)
                   /\ WithForward(calls[n].ins[1], r,
                                  LAMBDA x, o : o \in Range(kb.concept_ids))
                          \subseteq Range(calls[n + 1].out.val.ids)

C17_Witness ==
    \E n \in 1..Len(calls) :
        /\ RoundTrip(n)
        /\ WithForward(calls[n].ins[1], calls[n].args.relation,
                       LAMBDA x, o : o \in Range(kb.concept_ids)) # {}
        /\ WithForward(calls[n].ins[1], calls[n].args.relation,
                       LAMBDA x, o : ~StoresReverse(calls[n].args.relation, x, o))
               # {}

\* C18: QueryName(FindAll()) returns one name per record of the merged
\* store, concepts and entities together.
C18_NamesOfAll ==
    \A n \in 2..Len(calls) :
        (calls[n].fn = "QueryName" /\ calls[n - 1].fn = "FindAll")
            => LET ids == calls[n].ins[1].ids
                   out == calls[n].out
               IN  /\ out.exc = "none"
                   /\ Len(out.val.list) =
                          Cardinality(Range(kb.concept_ids) \cup Range(kb.entity_ids))
                   /\ Len(ids) = Len(out.val.list)
                   /\ Range(ids) = DOMAIN entities
                   /\ \A i \in 1..Len(ids) :
                          out.val.list[i] = entities[ids[i]].name

C18_Witness ==
    \E n \in 2..Len(calls) :
        /\ calls[n].fn = "QueryName" /\ calls[n - 1].fn = "FindAll"
        /\ Len(calls[n].out.val.list) = 4

(***************************************************************************)
(* KoPLEngine.forward.  Positions are the Python ones: program[i + 1] is   *)
(* the step at position i, and memory[x + 1] is memory[x].                 *)
(***************************************************************************)
Sentinels == {"<START>", "<END>", "<PAD>"}
Leaves    == {"FindAll", "Find"}
Binaries  == {"And", "Or", "SelectBetween", "QueryRelation",
              "QueryRelationQualifier"}

Step(p, inp) == [p |-> p, inp |-> inp]

\* the steps a program of the model is made of, each with its literal
\* arguments
Tokens ==
    {Step("FindAll", NoArgs), Step("FilterConcept", [name |-> "person"]),
     Step("And", NoArgs), Step("QueryRelation", NoArgs), Step("What", NoArgs)}

\* a step of one operand given its own position as its dependency
InferStepReadsSelf(st, i, p) ==
    IF p \in Sentinels
    THEN [st EXCEPT !.dependency = Append(@, <<>>)]
    ELSE IF p \in Leaves
    THEN [st EXCEPT !.dependency = Append(@, <<>>),
                    !.branch_stack = Append(@, i - 1)]
    ELSE IF p \in Binaries
    THEN IF st.branch_stack = <<>> THEN [st EXCEPT !.exc = "IndexError"]
         ELSE [st EXCEPT
                  !.dependency = Append(@, <<Last(st.branch_stack), i - 1>>),
                  !.branch_stack = SubSeq(@, 1, Len(@) - 1)]
    ELSE [st EXCEPT !.dependency = Append(@, <<i>>)]

\* the binary dependency taken from the two preceding positions
InferStepNoStack(st, i, p) ==
    IF p \in Sentinels
    THEN [st EXCEPT !.dependency = Append(@, <<>>)]
    ELSE IF p \in Leaves
    THEN [st EXCEPT !.dependency = Append(@, <<>>),
                    !.branch_stack = Append(@, i - 1)]
    ELSE IF p \in Binaries
    THEN IF st.branch_stack = <<>> THEN [st EXCEPT !.exc = "IndexError"]
         ELSE [st EXCEPT
                  !.dependency = Append(@, <<i - 2, i - 1>>),
                  !.branch_stack = SubSeq(@, 1, Len(@) - 1)]
    ELSE [st EXCEPT !.dependency = Append(@, <<i - 1>>)]

\* lines 108-124: the body of the inference loop at position i
InferStep(st, i, p) ==
    IF p \in Sentinels
    THEN [st EXCEPT !.dependency = Append(@, <<>>)]
    ELSE IF p \in Leaves
    THEN [st EXCEPT !.dependency = Append(@, <<>>),
                    !.branch_stack = Append(@, i - 1)]
    ELSE IF p \in Binaries
    THEN IF st.branch_stack = <<>> THEN [st EXCEPT !.exc = "IndexError"]
         ELSE [st EXCEPT
                  !.dependency = Append(@, <<Last(st.branch_stack), i - 1>>),
                  !.branch_stack = SubSeq(@, 1, Len(@) - 1)]
    ELSE [st EXCEPT !.dependency = Append(@, <<i - 1>>)]

\* lines 105-124: for i, p in enumerate(program)
RECURSIVE InferLoop(_, _, _)
InferLoop(prog, st, i) ==
    IF i >= Len(prog) \/ st.exc # "none" THEN st
    ELSE InferLoop(prog, InferStep(st, i, prog[i + 1].p), i + 1)

\* list(s) of a str s
Chars(s) ==
    CASE s = "Alice"  -> <<"A", "l", "i", "c", "e">>
      [] s = "Bob"    -> <<"B", "o", "b">>
      [] s = "person" -> <<"p", "e", "r", "s", "o", "n">>
      [] s = "agent"  -> <<"a", "g", "e", "n", "t">>
      [] s = "r1"     -> <<"r", "1">>
      [] s = "r2"     -> <<"r", "2">>

\* `entity_ids, _ = x`: None cannot be unpacked, a list only when it has
\* two elements, and then entity_ids is its first element, a str
Unpack(x) ==
    IF x.kind = "None" THEN Raise("TypeError")
    ELSE IF x.kind = "entities" THEN Return(x)
    ELSE IF Len(x.list) # 2 THEN Raise("ValueError")
    ELSE Return(EntityTuple(Chars(x.list[1]), <<>>, TRUE))

\* line 136-137: func(*fun_args, *inp) for the steps of Tokens
Apply(K, p, fun_args, inp, ord) ==
    LET a1 == Unpack(fun_args[1])
        a2 == Unpack(fun_args[2])
    IN  IF p = "FindAll" THEN FindAll(K)
        ELSE IF p = "Find" THEN Find(K, inp.name)
        ELSE IF a1.exc # "none" THEN Result(K, a1)
        ELSE IF p = "FilterConcept" THEN FilterConcept(K, a1.val, inp.name, ord)
        ELSE IF p = "QueryName" THEN QueryName(K, a1.val)
        ELSE IF p = "QueryAttr" THEN QueryAttr(K, a1.val, inp.key)
        ELSE IF p = "Relate"
             THEN Relate(K, a1.val, inp.relation, inp.direction, ord)
        ELSE IF p = "FilterNum"
             THEN FilterNum(K, a1.val, inp.key, inp.value, inp.op, ord)
        ELSE IF a2.exc # "none" THEN Result(K, a2)
        ELSE IF p = "SelectBetween"
             THEN SelectBetween(K, a1.val, a2.val, inp.key, inp.op)
        ELSE IF p = "And" THEN And(K, a1.val, a2.val, ord)
        ELSE IF p = "Or" THEN Or(K, a1.val, a2.val, ord)
        ELSE QueryRelation(K, a1.val, a2.val)

\* str(x), the text that x determines
Str(x) == [kind |-> "str", of |-> x]

\* lines 143-147
Format(x) ==
    IF x.kind \in {"strings", "values"}
    THEN [kind |-> "list", list |-> [n \in 1..Len(x.list) |-> Str(x.list[n])]]
    ELSE Str(x)

\* the handler without the test of ignore_error
HandlerAlwaysRaises(e, ignore) == [answer |-> None, raised |-> e]

\* lines 148-152: what the except clause hands to the caller
Handler(e, ignore) ==
    IF e \in {"IndexError", "TypeError", "ValueError", "KeyError",
              "AttributeError", "AssertionError", "Exception"} /\ ignore
    THEN [answer |-> None, raised |-> "none"]
    ELSE [answer |-> None, raised |-> e]

(***************************************************************************)
(* SpecFwd: after construction a caller runs forward(program, inputs,      *)
(* ignore_error) once.                                                     *)
(***************************************************************************)
kbFrame == <<kb, entity_order, attribute_keys, relations, pc>>

\* lines 100-102
ForwardCall ==
    /\ pc = "built" /\ fpc = "idle"
    /\ \E n \in 0..MaxProgram : \E body \in [1..n -> Tokens] :
       \E flag \in BOOLEAN :
        /\ program' = <<Step("<START>", NoArgs)>> \o body
                      \o <<Step("<END>", NoArgs)>>
        /\ ignore_error' = flag
        /\ memory' = <<>>
        /\ fpc' = "infer"
        /\ UNCHANGED <<dependency, branch_stack, err, answer, raised,
                       kbVars, cmpVars, ancVars, engVars, conVars>>

\* lines 105-124
InferDependency ==
    /\ fpc = "infer"
    /\ LET st == InferLoop(program,
                           [dependency |-> <<>>, branch_stack |-> <<>>,
                            exc |-> "none"], 0)
       IN  /\ dependency' = st.dependency
           /\ branch_stack' = st.branch_stack
           /\ err' = st.exc
           /\ fpc' = IF st.exc = "none" THEN "eval" ELSE "except"
    /\ UNCHANGED <<program, ignore_error, memory, answer, raised,
                   kbVars, cmpVars, ancVars, engVars, conVars>>

\* lines 127-139: one iteration of the evaluation loop
Evaluate ==
    /\ fpc = "eval"
    /\ LET i   == Len(memory)
           p0  == program[i + 1].p
           p   == IF p0 = "What" THEN "QueryName" ELSE p0
           dep == dependency[i + 1]
       IN  IF p = "<START>"
           THEN /\ memory' = Append(memory, None)
                /\ UNCHANGED <<err, fpc, KBStructures>>
           ELSE IF p = "<END>"
           THEN /\ fpc' = "return"
                /\ UNCHANGED <<memory, err, KBStructures>>
           ELSE \E ord \in HashOrders :
                LET r == Apply(TheKB, p, [n \in 1..Len(dep) |-> memory[dep[n] + 1]],
                               program[i + 1].inp, ord)
                IN  /\ entities' = r.kb.entities
                    /\ name_to_id' = r.kb.name_to_id
                    /\ concept_to_entity' = r.kb.concept_to_entity
                    /\ key_type' = r.kb.key_type
                    /\ attribute_inv_index' = r.kb.attribute_inv_index
                    /\ relation_inv_index' = r.kb.relation_inv_index
                    /\ forward_relation_index' = r.kb.forward_relation_index
                    /\ IF r.out.exc = "none"
                       THEN /\ memory' = Append(memory, r.out.val)
                            /\ UNCHANGED <<err, fpc>>
                       ELSE /\ err' = r.out.exc
                            /\ fpc' = "except"
                            /\ UNCHANGED memory
    /\ UNCHANGED <<program, ignore_error, dependency, branch_stack, answer,
                   raised, kbFrame, cmpVars, ancVars, engVars, conVars>>

\* lines 143-147
ReturnAnswer ==
    /\ fpc = "return"
    /\ answer' = Format(Last(memory))
    /\ fpc' = "done"
    /\ UNCHANGED <<program, ignore_error, dependency, branch_stack, memory,
                   err, raised, kbVars, cmpVars, ancVars, engVars, conVars>>

\* lines 148-152
Except ==
    /\ fpc = "except"
    /\ answer' = Handler(err, ignore_error).answer
    /\ raised' = Handler(err, ignore_error).raised
    /\ fpc' = "done"
    /\ UNCHANGED <<program, ignore_error, dependency, branch_stack, memory,
                   err, kbVars, cmpVars, ancVars, engVars, conVars>>

NextFwd ==
    \/ Merge \/ Mirror \/ Concepts \/ Index
    \/ ForwardCall \/ InferDependency \/ Evaluate \/ ReturnAnswer \/ Except

SpecFwd == InitEng /\ [][NextFwd]_vars

(***************************************************************************)
(* Claims about forward().                                                 *)
(***************************************************************************)
\* the primitive names of the program between the sentinels, 1-based
Body == [n \in 1..(Len(program) - 2) |-> program[n + 1].p]

\* leaves minus binary combinators among the first k steps of the body
Balance(k) ==
    Cardinality({j \in 1..k : Body[j] \in Leaves})
    - Cardinality({j \in 1..k : Body[j] \in Binaries})

\* a binary combinator that does not have two open branches before it
Underflow == \E i \in 1..Len(Body) : Body[i] \in Binaries /\ Balance(i - 1) < 2

\* more leaves than the binary combinators join into one tree
ExtraLeaves == ~Underflow /\ Balance(Len(Body)) > 1

\* C13: an ill-formed program, one with a binary combinator short of open
\* branches or with extra leaves, ends in an error when errors are not
\* ignored.
C13_IllFormedRaises ==
    (fpc = "done" /\ ~ignore_error /\ (Underflow \/ ExtraLeaves))
        => raised # "none"

\* C14: an error of dependency inference or of evaluation reaches the
\* caller exactly when ignore_error is false; when it is true the call
\* returns None and raises nothing; a run without error raises nothing.
C14_ErrorIsolation ==
    fpc = "done" =>
        IF err = "none" THEN raised = "none" /\ answer # None
        ELSE IF ignore_error THEN raised = "none" /\ answer = None
        ELSE raised = err

C14_Witness ==
    /\ fpc = "done" /\ ignore_error /\ err = "KeyError"
    /\ answer = None /\ raised = "none"

\* the leaf at body position j is still open before body position i
Unmatched(j, i) ==
    \A b \in (j + 1)..(i - 1) :
        Cardinality({k \in (j + 1)..b : Body[k] \in Binaries})
            <= Cardinality({k \in (j + 1)..b : Body[k] \in Leaves})

OpenBefore(i) ==
    {j \in 1..(i - 1) : Body[j] \in Leaves /\ Unmatched(j, i)}

Max(S) == CHOOSE x \in S : \A y \in S : y <= x

\* body positions a..b form one tree in post-order
RECURSIVE IsTree(_, _)
IsTree(a, b) ==
    IF a > b THEN FALSE
    ELSE IF Body[b] \in Leaves THEN a = b
    ELSE IF Body[b] \in Binaries
    THEN \E s \in (a + 1)..(b - 1) : IsTree(a, s - 1) /\ IsTree(s, b - 1)
    ELSE IsTree(a, b - 1)

\* the start of the right operand of the binary combinator at b
RightStart(a, b) ==
    CHOOSE s \in (a + 1)..(b - 1) : IsTree(a, s - 1) /\ IsTree(s, b - 1)

Inferred == fpc \in {"eval", "return", "done"} /\ Len(dependency) = Len(program)

\* C20: after inference the sentinels and the leaves depend on nothing, a
\* binary combinator at i depends on the top of the branch stack and on
\* i - 1, every other primitive (What included) on i - 1 alone; a leaf at i
\* leaves i - 1 on the stack and a binary combinator takes one entry off;
\* in a well-formed program the left operand of a binary combinator is the
\* last primitive of its left subtree.
C20_DependencyInference ==
    Inferred =>
        /\ dependency[1] = <<>> /\ dependency[Len(program)] = <<>>
        /\ \A i \in 1..Len(Body) :
              IF Body[i] \in Leaves THEN dependency[i + 1] = <<>>
              ELSE IF Body[i] \in Binaries
              THEN /\ OpenBefore(i) # {}
                   /\ dependency[i + 1] = <<Max(OpenBefore(i)) - 1, i - 1>>
              ELSE dependency[i + 1] = <<i - 1>>
        /\ Len(branch_stack) = Cardinality(OpenBefore(Len(Body) + 1))
        /\ \A n \in 1..Len(branch_stack) :
              /\ branch_stack[n] + 1 \in OpenBefore(Len(Body) + 1)
              /\ n > 1 => branch_stack[n - 1] < branch_stack[n]
        /\ IsTree(1, Len(Body)) =>
              \A i \in 1..Len(Body) :
                  Body[i] \in Binaries =>
                      \E a \in 1..i :
                          /\ IsTree(a, i)
                          /\ dependency[i + 1][1] = RightStart(a, i) - 1
                          /\ dependency[i + 1][2] = i - 1

C20_Witness ==
    /\ Inferred
    /\ Body = <<"FindAll", "FindAll", "FilterConcept", "And", "What">>
    /\ dependency[5] = <<1, 3>>
    /\ dependency[6] = <<4>>
    /\ branch_stack = <<0>>

(***************************************************************************)
(* SpecConc: after construction NumThreads threads each make one primitive *)
(* call on the shared KB.  A step of a thread is a stretch of the call     *)
(* between two accesses to a shared dict.  The interpreter lock makes      *)
(* set(d.keys()) one step; a build without it lets another thread run      *)
(* while the keys are visited, and the visit of a dict that grew raises    *)
(* RuntimeError.  Both are behaviours of the model: FilterKeys may follow  *)
(* FilterLookup at once, or after steps of another thread.                 *)
(***************************************************************************)
NumThreads == 2

ThreadCalls == {"FilterNum", "QueryAttr", "QueryRelation"}

\* the key and the literal of the calls
ThreadKey == "k1"

Pending == Raise("pending")

\* the call fn made alone on the KB K
Alone(fn, K, ord) ==
    LET X == FindAll(K).out.val
    IN  IF fn = "FilterNum"
        THEN FilterNum(K, X, ThreadKey, LitQuantity, "=", ord).out
        ELSE IF fn = "QueryAttr" THEN QueryAttr(K, X, ThreadKey).out
        ELSE QueryRelation(K, X, X).out

Thread(fn, K) ==
    [fn |-> fn, at |-> "start", ids |-> FindAll(K).out.val.ids, n |-> 0,
     keys |-> {}, res |-> <<>>, out |-> Pending,
     alone |-> {Alone(fn, K, ord) : ord \in HashOrders}]

conFrame == <<kb, entity_order, attribute_keys, relations, pc, cmpVars,
              ancVars, engVars, fwdVars>>

Spawn ==
    /\ pc = "built" /\ threads = <<>>
    /\ \E fns \in [1..NumThreads -> ThreadCalls] :
           threads' = [t \in 1..NumThreads |-> Thread(fns[t], TheKB)]
    /\ UNCHANGED <<KBStructures, conFrame>>

\* kopl.py lines 231-235: the literal is parsed, attribute_inv_index[tgt_key]
\* is read and the visit of its keys begins
FilterLookup ==
    \E t \in DOMAIN threads :
        /\ threads[t].fn = "FilterNum" /\ threads[t].at = "start"
        /\ LET aii == DefaultDictGet(attribute_inv_index, ThreadKey)
           IN  /\ attribute_inv_index' = aii
               /\ threads' = [threads EXCEPT ![t].at = "keys",
                                             ![t].keys = DOMAIN aii[ThreadKey]]
        /\ UNCHANGED <<entities, name_to_id, concept_to_entity, key_type,
                       relation_inv_index, forward_relation_index, conFrame>>

\* kopl.py lines 233-235: the visit of the keys ends; when the dict grew
\* since it began the visit either was over already or raises
FilterKeys ==
    \E t \in DOMAIN threads :
        /\ threads[t].at = "keys"
        /\ IF DOMAIN attribute_inv_index[ThreadKey] = threads[t].keys
           THEN threads' = [threads EXCEPT ![t].at = "loop"]
           ELSE \E raises \in BOOLEAN :
                  threads' = IF raises
                             THEN [threads EXCEPT ![t].at = "done",
                                                  ![t].out = Raise("RuntimeError")]
                             ELSE [threads EXCEPT ![t].at = "loop"]
        /\ UNCHANGED <<KBStructures, conFrame>>

\* kopl.py lines 236-247: the loop over entity_ids_set, every id of which
\* is a key of attribute_inv_index[tgt_key]
FilterLoop ==
    \E t \in DOMAIN threads : \E ord \in HashOrders :
        /\ threads[t].at = "loop"
        /\ LET entity_ids_set == Range(threads[t].ids) \cap threads[t].keys
               r == _filter_attribute(TheKB, ListOfSet(entity_ids_set, ord),
                                      ThreadKey, LitQuantity, "=", "quantity",
                                      ord)
           IN  threads' = [threads EXCEPT ![t].at = "done", ![t].out = r.out]
        /\ UNCHANGED <<KBStructures, conFrame>>

\* kopl.py lines 680-684: one turn of the loop of QueryAttr
QueryAttrStep ==
    \E t \in DOMAIN threads :
        /\ threads[t].fn = "QueryAttr" /\ threads[t].at = "start"
        /\ LET th  == threads[t]
               r   == QueryAttr(TheKB, EntityTuple(<<th.ids[th.n + 1]>>, <<>>, TRUE),
                                ThreadKey)
               res == th.res \o r.out.val.list
           IN  /\ attribute_inv_index' = r.kb.attribute_inv_index
               /\ threads' =
                     IF th.n + 1 = Len(th.ids)
                     THEN [threads EXCEPT ![t].at = "done", ![t].n = @ + 1,
                                          ![t].res = res,
                                          ![t].out = Return(ValueList(res))]
                     ELSE [threads EXCEPT ![t].n = @ + 1, ![t].res = res]
        /\ UNCHANGED <<entities, name_to_id, concept_to_entity, key_type,
                       relation_inv_index, forward_relation_index, conFrame>>

\* kopl.py lines 850-854: one turn of the inner loop of QueryRelation
QueryRelationStep ==
    \E t \in DOMAIN threads :
        /\ threads[t].fn = "QueryRelation" /\ threads[t].at = "start"
        /\ LET th  == threads[t]
               len == Len(th.ids)
               a   == th.ids[(th.n \div len) + 1]
               b   == th.ids[(th.n % len) + 1]
               r   == QueryRelation(TheKB, EntityTuple(<<a>>, <<>>, TRUE),
                                    EntityTuple(<<b>>, <<>>, TRUE))
               res == th.res \o r.out.val.list
           IN  /\ forward_relation_index' = r.kb.forward_relation_index
               /\ threads' =
                     IF th.n + 1 = len * len
                     THEN [threads EXCEPT ![t].at = "done", ![t].n = @ + 1,
                                          ![t].res = res,
                                          ![t].out = Return(StringList(res))]
                     ELSE [threads EXCEPT ![t].n = @ + 1, ![t].res = res]
        /\ UNCHANGED <<entities, name_to_id, concept_to_entity, key_type,
                       attribute_inv_index, relation_inv_index, conFrame>>

NextConc ==
    \/ Merge \/ Mirror \/ Concepts \/ Index
    \/ Spawn \/ FilterLookup \/ FilterKeys \/ FilterLoop
    \/ QueryAttrStep \/ QueryRelationStep

SpecConc == InitEng /\ [][NextConc]_vars

\* C19: with several threads evaluating on one constructed KB, every
\* finished call has the answer it has when made alone and none has failed,
\* and no step of a thread changes a structure of the KB.
C19_ConcurrentEvaluationsIndependent ==
    /\ [](\A t \in DOMAIN threads :
             threads[t].at = "done" => threads[t].out \in threads[t].alone)
    /\ [][threads # <<>> => UNCHANGED KBStructures]_vars

(***************************************************************************)
(* Further properties of the constructed KB, under Spec.                   *)
(***************************************************************************)
Flipped(d) == IF d = "forward" THEN "backward" ELSE "forward"

\* the records the input asks to be mirrored on the concept c, as the
\* input spells them
RawMirrorsOf(c) ==
    UNION {{[relation   |-> kb.entities[e].relations[i].relation,
             direction  |-> Flipped(kb.entities[e].relations[i].direction),
             object     |-> e,
             qualifiers |-> kb.entities[e].relations[i].qualifiers] :
               i \in {n \in 1..Len(kb.entities[e].relations) :
                         kb.entities[e].relations[n].object = c}} :
           e \in Range(kb.entity_ids)}

\* a mirror after its qualifier values have been parsed
ParsedMirror(m) == [m EXCEPT !.qualifiers = ParseQualifiers(m.qualifiers)]

Distinct(s) == \A i, j \in 1..Len(s) : i # j => s[i] # s[j]

\* C24 as stated: after construction no concept holds two equal relations.
C24_NoEqualMirrors ==
    pc = "built" =>
        \A c \in Range(kb.concept_ids) : Distinct(entities[c].relations)

\* C24: a concept holds one mirror for each distinct record the input
\* asks to be mirrored on it, the records being compared as the input
\* spells them, before their qualifier values are parsed: an entity that
\* carries the same concept-valued relation several times adds one mirror.
C24_OneMirrorPerInputRecord ==
    /\ pc = "mirrored" =>
          \A c \in Range(kb.concept_ids) :
              /\ Distinct(entities[c].relations)
              /\ Range(entities[c].relations) = RawMirrorsOf(c)
    /\ pc = "built" =>
          \A c \in Range(kb.concept_ids) :
              /\ Len(entities[c].relations) = Cardinality(RawMirrorsOf(c))
              /\ Range(entities[c].relations) =
                     {ParsedMirror(m) : m \in RawMirrorsOf(c)}

C24_Witness ==
    /\ pc = "built"
    /\ Len(kb.entities["e1"].relations) = 2
    /\ kb.entities["e1"].relations[1] = kb.entities["e1"].relations[2]
    /\ kb.entities["e1"].relations[1].object = "c1"
    /\ Len(entities["c1"].relations) = 1

\* p is a position the index lists under the keys k1 and k2
Listed(d, k1, k2, p) ==
    /\ k1 \in DOMAIN d /\ k2 \in DOMAIN d[k1]
    /\ p \in Range(d[k1][k2])

ListedPair(d, k, p) == k \in DOMAIN d /\ p \in Range(d[k])

\* C29: every relation of an entity whose object is a concept o has left a
\* mirror on o; the position of the mirror is listed in relation_inv_index
\* under its label and flipped direction and, when that direction is
\* forward, in forward_relation_index under (o, e); Relate over a bundle
\* that contains o, with that label and direction, returns e.
C29_MirrorsIndexed ==
    pc = "built" =>
        \A e \in Range(kb.entity_ids) :
        \A j \in 1..Len(kb.entities[e].relations) :
            LET rel == kb.entities[e].relations[j]
                o   == rel.object
                dir == Flipped(rel.direction)
            IN  o \in Range(kb.concept_ids) =>
                /\ \E i \in 1..Len(entities[o].relations) :
                      /\ entities[o].relations[i].relation = rel.relation
                      /\ entities[o].relations[i].direction = dir
                      /\ entities[o].relations[i].object = e
                      /\ Listed(relation_inv_index, <<rel.relation, dir>>, o, i - 1)
                      /\ dir = "forward" =>
                            ListedPair(forward_relation_index, <<o, e>>, i - 1)
                /\ \A ord \in HashOrders : \A X \in {<<o>>, entity_order} :
                      e \in Range(Relate(TheKB, EntityTuple(X, <<>>, TRUE),
                                         rel.relation, dir, ord).out.val.ids)

C29_Witness ==
    /\ pc = "built"
    /\ \E j \in 1..Len(kb.entities["e1"].relations) :
          /\ kb.entities["e1"].relations[j].object = "c1"
          /\ kb.entities["e1"].relations[j].direction = "backward"
    /\ ListedPair(forward_relation_index, <<"c1", "e1">>, 0)

StrictlyIncreasing(s) == \A i \in 1..(Len(s) - 1) : s[i] < s[i + 1]

\* the list an index holds under a key, none when the key is absent
ListAt(d, k) == IF k \in DOMAIN d THEN d[k] ELSE <<>>

Directions == {"forward", "backward"}

\* C30: after construction each index lists, once and in increasing order,
\* exactly the positions of the records it is keyed by: the attributes of
\* e with key k, the relations of e with label r and direction dir, the
\* forward relations of e with object o.
C30_IndexConsistency ==
    pc = "built" =>
        LET es   == DOMAIN entities
            keys == DOMAIN attribute_inv_index \cup attribute_keys \cup {"kz"}
            rels == relations \cup {"rz"}
                    \cup {k[1] : k \in DOMAIN relation_inv_index}
        IN  /\ \A k \in keys : \A e \in es :
                  LET ps == Positions(attribute_inv_index, k, e)
                  IN  /\ StrictlyIncreasing(ps)
                      /\ Range(ps) =
                            {p \in 0..(Len(entities[e].attributes) - 1) :
                                entities[e].attributes[p + 1].key = k}
            /\ \A r \in rels : \A dir \in Directions : \A e \in es :
                  LET ps == Positions(relation_inv_index, <<r, dir>>, e)
                  IN  /\ StrictlyIncreasing(ps)
                      /\ Range(ps) =
                            {p \in 0..(Len(entities[e].relations) - 1) :
                                /\ entities[e].relations[p + 1].relation = r
                                /\ entities[e].relations[p + 1].direction = dir}
            /\ \A e \in es : \A o \in es \cup {"zz"} :
                  LET ps == ListAt(forward_relation_index, <<e, o>>)
                  IN  /\ StrictlyIncreasing(ps)
                      /\ Range(ps) =
                            {p \in 0..(Len(entities[e].relations) - 1) :
                                /\ entities[e].relations[p + 1].direction = "forward"
                                /\ entities[e].relations[p + 1].object = o}
            /\ DOMAIN attribute_inv_index \subseteq keys
            /\ \A k \in DOMAIN attribute_inv_index :
                  DOMAIN attribute_inv_index[k] \subseteq es
            /\ \A k \in DOMAIN relation_inv_index :
                  DOMAIN relation_inv_index[k] \subseteq es
            /\ \A k \in DOMAIN forward_relation_index : k[1] \in es

C30_Witness ==
    /\ pc = "built"
    /\ Positions(attribute_inv_index, "k1", "e1") = <<0, 1>>
    /\ Positions(attribute_inv_index, "k2", "e2") = <<0>>
    /\ ListAt(forward_relation_index, <<"e2", "c2">>) = <<0>>

(***************************************************************************)
(* Further properties of the primitives, under SpecEng.                    *)
(***************************************************************************)
FactDroppers == {"FindAll", "Find", "FilterConcept", "And", "Or"}

Occurrences(s, x) == Cardinality({i \in 1..Len(s) : s[i] = x})

\* the positions (from one) of the attributes of e with the key of the
\* call c whose value is comparable to its parsed target and satisfies its
\* operator
MatchingPositions(c, e) ==
    LET tgt == _parse_key_value(TheKB, "None", c.args.value, TypeOf(c.fn)).val
    IN  IF e \notin DOMAIN entities THEN {}
        ELSE {p \in 1..Len(entities[e].attributes) :
                 /\ entities[e].attributes[p].key = c.args.key
                 /\ Comparable(entities[e].attributes[p].value, tgt)
                 /\ Satisfies(entities[e].attributes[p].value, tgt, c.args.op)}

\* C23: an attribute filter returns an id of its input once for each
\* attribute of that entity with the key whose value is comparable to the
\* parsed target and satisfies the operator, however often the id occurs
\* in the input, and returns no other id; the fact at each position is
\* such an attribute of the id at that position.
C23_OneOccurrencePerMatch ==
    \A n \in 1..Len(calls) :
        (calls[n].fn \in AttributeFilters /\ calls[n].out.exc = "none")
            => LET c   == calls[n]
                   in  == c.ins[1].ids
                   out == c.out.val
               IN  /\ \A e \in DOMAIN entities \cup Range(in) \cup Range(out.ids) :
                          Occurrences(out.ids, e) =
                              IF e \in Range(in)
                              THEN Cardinality(MatchingPositions(c, e))
                              ELSE 0
                   /\ Len(out.facts) = Len(out.ids)
                   /\ \A i \in 1..Len(out.ids) :
                          \E p \in MatchingPositions(c, out.ids[i]) :
                              out.facts[i] = entities[out.ids[i]].attributes[p]
                   /\ \A e \in Range(out.ids) :
                          {out.facts[i] : i \in {j \in 1..Len(out.ids) : out.ids[j] = e}}
                              = {entities[e].attributes[p] :
                                    p \in MatchingPositions(c, e)}

RECURSIVE IsSubsequence(_, _)
IsSubsequence(a, b) ==
    IF a = <<>> THEN TRUE
    ELSE IF b = <<>> THEN FALSE
    ELSE IF Head(a) = Head(b) THEN IsSubsequence(Tail(a), Tail(b))
    ELSE IsSubsequence(a, Tail(b))

\* C25: in a bundle returned by an attribute filter, a qualifier filter or
\* Relate the ids and the facts have one length; the fact at a position is
\* an attribute with the filtered key of the id at that position, or a
\* relation with the label and direction of the call, held by an entity of
\* the input, whose object is the id at that position, or the fact the
\* input of the qualifier filter paired with that id, the pairs being kept
\* in their order.
C25_FactsAligned ==
    \A n \in 1..Len(calls) :
        (calls[n].fn \in AttributeFilters \cup QualifierFilters \cup {"Relate"}
         /\ calls[n].out.exc = "none")
            => LET c   == calls[n]
                   in  == c.ins[1]
                   out == c.out.val
               IN  /\ ~out.none
                   /\ Len(out.ids) = Len(out.facts)
                   /\ c.fn \in AttributeFilters =>
                         \A i \in 1..Len(out.ids) :
                             /\ out.facts[i].key = c.args.key
                             /\ out.facts[i] \in Range(entities[out.ids[i]].attributes)
                   /\ c.fn = "Relate" =>
                         \A i \in 1..Len(out.ids) :
                             /\ out.facts[i].object = out.ids[i]
                             /\ out.facts[i].relation = c.args.relation
                             /\ out.facts[i].direction = c.args.direction
                             /\ \E e \in Range(in.ids) :
                                   out.facts[i] \in Range(entities[e].relations)
                   /\ c.fn \in QualifierFilters =>
                         IsSubsequence(Zip(out.ids, out.facts),
                                       Zip(in.ids, in.facts))

\* a chain Relate, attribute filter, qualifier filter whose result holds an
\* entity twice, with two different facts
C25_Witness ==
    /\ Len(calls) = 3
    /\ calls[1].fn = "FindAll"
    /\ calls[2].fn = "FilterNum" /\ calls[3].fn \in QualifierFilters
    /\ calls[3].out.exc = "none"
    /\ Len(calls[3].out.val.ids) = 1
    /\ Len(calls[2].out.val.ids) = 2
    /\ calls[2].out.val.ids[1] = calls[2].out.val.ids[2]
    /\ calls[2].out.val.facts[1] # calls[2].out.val.facts[2]

(***************************************************************************)
(* SelectBetween and the comparisons the primitives make.                  *)
(***************************************************************************)
\* the candidates of a SelectBetween call c: a position of the ids of L
\* followed by those of R, and a position (from one) of a quantity
\* attribute with the key among that entity's attributes
CandidatesOf(c) ==
    LET ids == c.ins[1].ids \o c.ins[2].ids
        Quantity(a) == a.key = c.args.key /\ a.value.type = "quantity"
    IN  UNION {{<<n, p>> : p \in {q \in 1..Len(entities[ids[n]].attributes) :
                                     Quantity(entities[ids[n]].attributes[q])}} :
               n \in {m \in 1..Len(ids) : ids[m] \in DOMAIN entities}}

\* the entity and the value of a candidate
CandidateId(c, np) == (c.ins[1].ids \o c.ins[2].ids)[np[1]]
CandidateValue(c, np) == entities[CandidateId(c, np)].attributes[np[2]].value

\* the candidates of c with the unit u
WithUnit(c, u) == {np \in CandidatesOf(c) : CandidateValue(c, np).unit = u}

\* the units no other unit outnumbers among the candidates of c
MostFrequentUnits(c) ==
    {u \in {CandidateValue(c, np).unit : np \in CandidatesOf(c)} :
        \A np \in CandidatesOf(c) :
            Cardinality(WithUnit(c, u))
                >= Cardinality(WithUnit(c, CandidateValue(c, np).unit))}

\* C21: SelectBetween(L, R, key, op) takes as candidates the attributes
\* with the key of the ids of L followed by those of R, keeps the quantity
\* values, keeps those of the most frequent unit, and returns the name of
\* an entity that holds the least (op = less) or the greatest
\* (op = greater) of the values kept; when no candidate holds the
\* attribute as a quantity the call raises an error and returns no name.
C21_SelectBetween ==
    \A n \in 1..Len(calls) :
        calls[n].fn = "SelectBetween"
            => LET c == calls[n]
               IN  IF CandidatesOf(c) = {} THEN c.out.exc # "none"
                   ELSE /\ c.out.exc = "none"
                        /\ c.out.val.kind = "scalar"
                        /\ \E u \in MostFrequentUnits(c) :
                           \E np \in WithUnit(c, u) :
                               /\ entities[CandidateId(c, np)].name
                                      = c.out.val.value
                               /\ \A mq \in WithUnit(c, u) :
                                      IF c.args.op = "less"
                                      THEN CandidateValue(c, np).value
                                               <= CandidateValue(c, mq).value
                                      ELSE CandidateValue(c, np).value
                                               >= CandidateValue(c, mq).value

\* SelectBetween returned the name of the entity with the greatest value of
\* the most frequent unit while a greater value of a rarer unit was among
\* the candidates, and failed in a call with no quantity candidate
C21_Witness ==
    /\ Len(calls) = 3
    /\ calls[3].fn = "SelectBetween" /\ calls[3].args.op = "greater"
    /\ calls[3].out.exc = "none" /\ calls[3].out.val.value = "Bob"
    /\ \E np, mq \in CandidatesOf(calls[3]) :
           /\ CandidateValue(calls[3], np).unit # CandidateValue(calls[3], mq).unit
           /\ CandidateValue(calls[3], mq).value > 2
           /\ CandidateValue(calls[3], np).value = 1

\* the types a primitive parses its target to
OwnTypes(fn) ==
    IF TypeOf(fn) \in {"year", "date"} THEN {"year", "date"} ELSE {TypeOf(fn)}

\* C28: no primitive compares a string value, or two values that cannot be
\* compared, for order: a filter or a verifier called with '<' or '>' is
\* none of FilterStr, QFilterStr and VerifyStr and has parsed its target to
\* its own type, and no call, SelectBetween and SelectAmong included, ends
\* in the error of a string ordering or in the assertion of __lt__.
C28_NoOrderingOfIncomparables ==
    \A n \in 1..Len(calls) :
        /\ calls[n].out.exc \notin {"Exception", "AssertionError"}
        /\ (calls[n].fn \in AttributeFilters \cup QualifierFilters \cup Verifiers
            /\ calls[n].args.op \in {"<", ">"})
               => /\ TypeOf(calls[n].fn) # "string"
                  /\ LET tgt == _parse_key_value(TheKB, "None",
                                    calls[n].args.value, TypeOf(calls[n].fn))
                     IN  tgt.exc = "none"
                            => tgt.val.type \in OwnTypes(calls[n].fn)

\* FilterNum with '>' has visited a quantity of another unit than its
\* target's, and SelectAmong has sorted where two units were candidates
C28_Witness ==
    /\ Len(calls) = 3
    /\ calls[2].fn = "FilterNum" /\ calls[2].args.op = ">"
    /\ calls[2].args.key = "k1" /\ "e2" \in Range(calls[2].ins[1].ids)
    /\ calls[2].out.exc = "none"
    /\ calls[3].fn = "SelectAmong" /\ calls[3].out.exc = "none"

(***************************************************************************)
(* The memory forward() reads.                                             *)
(***************************************************************************)
\* the operands of the step at the position the evaluation stands at
Operands == dependency[Len(memory) + 1]

\* C26: whatever the program, a dependency inferred for position i lies in
\* 0..i-1, so the step evaluated at position i, when memory holds i
\* entries, reads written slots only; the inference fails only on an empty
\* branch stack at a binary combinator, before anything is evaluated, and
\* the only slot that holds no result of a primitive is slot 0 of <START>,
\* which is what a step that fails to unpack None has read.
C26_ReadsWrittenSlots ==
    /\ \A i \in 1..Len(dependency) :
           \A n \in 1..Len(dependency[i]) :
               dependency[i][n] \in 0..(i - 2)
    /\ Len(memory) <= Len(program)
    /\ (fpc = "eval" /\ Len(memory) < Len(dependency))
           => \A n \in 1..Len(Operands) : Operands[n] + 1 <= Len(memory)
    /\ \A x \in 1..Len(memory) : (memory[x] = None) <=> (x = 1)
    /\ err = "IndexError" => (Underflow /\ memory = <<>>)
    /\ err = "TypeError" => \E n \in 1..Len(Operands) : Operands[n] = 0

\* a binary combinator behind one leaf has read slot 0 through the branch
\* stack and failed on it
C26_Witness ==
    /\ fpc = "done" /\ err = "TypeError"
    /\ Len(memory) = 2
    /\ program[3].p \in Binaries
    /\ dependency[3] = <<0, 1>>

(***************************************************************************)
(* SpecRep: after construction a caller runs forward() several times on    *)
(* one engine; calls is the log of the runs.  The order in which a set is  *)
(* visited is fixed by the sets it was built from: a set built again from  *)
(* the same operands is visited as it was before, a set built from other   *)
(* operands in any order.                                                  *)
(***************************************************************************)
MaxRuns == 3

\* e1 and e2 hold the same quantity under k1
RepAttributes ==
    <<[key |-> "k1", value |-> RawQuantity, qualifiers |-> EmptyDict]>>

RepKB ==
    [KBInput(<<"c2">>, <<>>, <<"c1">>, RepAttributes, DefaultRelations)
        EXCEPT !.entities["e2"].attributes = RepAttributes]

KBInitRep ==
    /\ kb = RepKB
    /\ entities = EmptyDict
    /\ entity_order = <<>>
    /\ name_to_id = EmptyDict
    /\ concept_to_entity = EmptyDict
    /\ attribute_keys = {}
    /\ relations = {}
    /\ key_type = EmptyDict
    /\ attribute_inv_index = EmptyDict
    /\ relation_inv_index = EmptyDict
    /\ forward_relation_index = EmptyDict
    /\ pc = "start"

\* the programs the caller runs: one that selects between two entities of
\* equal value, ones that name an unknown key, name or relation, and one
\* that fails
RepPrograms ==
    LET FilterOne == Step("FilterNum", [key |-> "k1", value |-> LitQuantity,
                                        op |-> "="])
    IN  {<<Step("FindAll", NoArgs), FilterOne,
           Step("Find", [name |-> "nobody"]),
           Step("SelectBetween", [key |-> "k1", op |-> "less"])>>,
         <<Step("FindAll", NoArgs), FilterOne, Step("What", NoArgs)>>,
         <<Step("FindAll", NoArgs), Step("QueryAttr", [key |-> "k1"])>>,
         <<Step("FindAll", NoArgs), Step("QueryAttr", [key |-> "kz"])>>,
         <<Step("Find", [name |-> "nobody"]), Step("What", NoArgs)>>,
         <<Step("FindAll", NoArgs),
           Step("Relate", [relation |-> "rz", direction |-> "forward"]),
           Step("What", NoArgs)>>,
         <<Step("And", NoArgs)>>}

\* lines 100-102, and the call entered in the log
RepCall ==
    /\ pc = "built" /\ fpc = "idle" /\ Len(calls) < MaxRuns
    /\ \E body \in RepPrograms :
        /\ program' = <<Step("<START>", NoArgs)>> \o body
                      \o <<Step("<END>", NoArgs)>>
        /\ calls' = Append(calls, [fn |-> "forward", args |-> body,
                                   visits |-> <<>>, out |-> Pending])
    /\ ignore_error' = FALSE
    /\ memory' = <<>>
    /\ dependency' = <<>>
    /\ branch_stack' = <<>>
    /\ err' = "none"
    /\ answer' = None
    /\ raised' = "none"
    /\ fpc' = "infer"
    /\ UNCHANGED <<kbVars, cmpVars, ancVars, conVars>>

\* the sets a step intersects before it visits the result: the ids it is
\* given and the keys of the bucket it looks them up in
SetOperands(K, p, fun_args, inp) ==
    IF fun_args = <<>> \/ Unpack(fun_args[1]).exc # "none" THEN <<>>
    ELSE LET ids == Range(Unpack(fun_args[1]).val.ids)
         IN  IF p = "FilterNum"
             THEN <<ids, IF inp.key \in DOMAIN K.attribute_inv_index
                         THEN DOMAIN K.attribute_inv_index[inp.key] ELSE {}>>
             ELSE IF p = "Relate"
             THEN <<ids, IF <<inp.relation, inp.direction>>
                               \in DOMAIN K.relation_inv_index
                         THEN DOMAIN K.relation_inv_index[
                                  <<inp.relation, inp.direction>>]
                         ELSE {}>>
             ELSE <<>>

\* the sets visited on this engine so far, each with the order taken
Visited == Flatten([n \in 1..Len(calls) |-> calls[n].visits])

\* lines 127-139: one iteration of the evaluation loop
EvaluateRep ==
    /\ fpc = "eval"
    /\ LET i   == Len(memory)
           p0  == program[i + 1].p
           p   == IF p0 = "What" THEN "QueryName" ELSE p0
           dep == dependency[i + 1]
       IN  IF p = "<START>"
           THEN /\ memory' = Append(memory, None)
                /\ UNCHANGED <<err, fpc, KBStructures, calls>>
           ELSE IF p = "<END>"
           THEN /\ fpc' = "return"
                /\ UNCHANGED <<memory, err, KBStructures, calls>>
           ELSE \E ord \in HashOrders :
                LET args == [n \in 1..Len(dep) |-> memory[dep[n] + 1]]
                    set  == SetOperands(TheKB, p, args, program[i + 1].inp)
                    r    == Apply(TheKB, p, args, program[i + 1].inp, ord)
                IN  /\ \A n \in 1..Len(Visited) :
                           Visited[n].set = set => Visited[n].ord = ord
                    /\ calls' = IF set = <<>> THEN calls
                                ELSE [calls EXCEPT ![Len(calls)].visits =
                                         Append(@, [set |-> set, ord |-> ord])]
                    /\ entities' = r.kb.entities
                    /\ name_to_id' = r.kb.name_to_id
                    /\ concept_to_entity' = r.kb.concept_to_entity
                    /\ key_type' = r.kb.key_type
                    /\ attribute_inv_index' = r.kb.attribute_inv_index
                    /\ relation_inv_index' = r.kb.relation_inv_index
                    /\ forward_relation_index' = r.kb.forward_relation_index
                    /\ IF r.out.exc = "none"
                       THEN /\ memory' = Append(memory, r.out.val)
                            /\ UNCHANGED <<err, fpc>>
                       ELSE /\ err' = r.out.exc
                            /\ fpc' = "except"
                            /\ UNCHANGED memory
    /\ UNCHANGED <<program, ignore_error, dependency, branch_stack, answer,
                   raised, kbFrame, cmpVars, ancVars, conVars>>

\* the caller has the answer, or the exception, of the run
Finish ==
    /\ fpc = "done"
    /\ calls' = [calls EXCEPT ![Len(calls)].out =
                    [exc |-> raised, val |-> answer]]
    /\ fpc' = "idle"
    /\ UNCHANGED <<program, ignore_error, dependency, branch_stack, memory,
                   err, answer, raised, kbVars, cmpVars, ancVars, conVars>>

InitRep == CompIdle /\ AncIdle /\ KBInitRep /\ RunIdle

NextRep ==
    \/ Merge \/ Mirror \/ Concepts \/ Index
    \/ RepCall \/ InferDependency \/ EvaluateRep \/ ReturnAnswer \/ Except
    \/ Finish

SpecRep == InitRep /\ [][NextRep]_vars

\* the run entered n-th in the log has ended
Finished(n) == calls[n].out.exc # "pending"

\* the same exception, or the same scalar, or the same strings each as often
SameAnswer(a, b) ==
    /\ a.exc = b.exc
    /\ a.val.kind = b.val.kind
    /\ IF a.val.kind = "list"
       THEN \A x \in Range(a.val.list) \cup Range(b.val.list) :
                Occurrences(a.val.list, x) = Occurrences(b.val.list, x)
       ELSE a.val = b.val

\* C27: on one engine two runs of forward() on the same program give the
\* same answer, the same scalar or the same strings each as often,
\* whatever programs, failing ones and ones that name unknown keys, names
\* or relations included, were run before either of them.
C27_Repeatable ==
    \A m, n \in 1..Len(calls) :
        (Finished(m) /\ Finished(n) /\ calls[m].args = calls[n].args)
            => SameAnswer(calls[m].out, calls[n].out)

====
